---- MODULE Spec2Model ----
(***************************************************************************)
(* VirusTotal URL scan: the scan orchestration of VirusTotalService        *)
(* (service) and of the standalone scanAndNotify script, the analysis      *)
(* poller, and the verdict summarizer.                                     *)
(*                                                                         *)
(* Conventions.                                                            *)
(*  - A JavaScript value that may be null/undefined is a sequence of       *)
(*    length 0 (absent) or 1 (present): None, Some(v).                     *)
(*  - Date.now() and every "...Ms" quantity that can reach 30 days is a    *)
(*    two-limb number [s |-> whole seconds, r |-> 0..999 milliseconds],    *)
(*    because 30 days in milliseconds does not fit TLC's integers.         *)
(*    Quantities of the poller (interval, timeout, elapsed) are plain      *)
(*    millisecond integers.                                                *)
(*  - A string the code only passes along (a URL) is a sequence of code    *)
(*    points, so that b64url can be computed on it.                        *)
(***************************************************************************)
EXTENDS Integers, Sequences, FiniteSets, TLC

VARIABLES
  impl,           \* "service" (VirusTotalService) or "standalone" (scanAndNotify)
  apiKey,         \* VIRUS_TOTAL_API_KEY: a string, "" when not set
  entry,          \* the operation that was called: "scanUrl", "waitForAnalysis", "summarize",
                  \* "humanizeDuration"; "cache" for the cache of the extension's
                  \* BackgroundService, "background" for its scanUrl, "controller" for
                  \* the HTTP route of the service, "content" for the content script
                  \* of the extension, "config" for the BackgroundService's config
  pc,             \* where the call is suspended (which await), or how it ended
  urlStr,         \* the argument of scanUrl / summarize
  t0,             \* Date.now() when the call began (two-limb)
  msArg,          \* the argument `ms` of humanizeDuration (two-limb, None = null)
  clock,          \* milliseconds elapsed since the call began
  start,          \* waitForAnalysis: clock value of `const start = Date.now()`
  intervalMs,     \* waitForAnalysis: resolved option
  timeoutMs,      \* waitForAnalysis: resolved option
  initialReport,  \* scanUrl: pre-scan report (None = null)
  finalReport,    \* scanUrl: post-scan report (None = null)
  analysisId,     \* the id submitUrl returned / waitForAnalysis was called with
  lastStatus,     \* waitForAnalysis: `status` of the last response (None = undefined)
  lastAnswer,     \* the answer the last step handled: the await it ended and its HTTP
                  \* status (0: fetch rejected); None when the step handled none
  job,            \* what waitForAnalysis returned (None until it returns)
  trace,          \* every upstream request, sleep and summarize call, in order; for
                  \* the content script, every chrome.runtime.sendMessage of scanUrl
  raised,         \* the Error object thrown where the failure happened (None = none)
  rejected,       \* the Error object the caller of the operation receives
  result,         \* the ScanSummary the caller receives (None = none)
  cache,          \* BackgroundService.cache: the Map's entries in insertion order, each
                  \* with its key (url), its result and its timestamp (Date.now() when
                  \* stored, in milliseconds since t0)
  cacheOps,       \* how many cache operations have run
  lastOp,         \* the cache operation that ran last: its kind, its url, the result it
                  \* stored or returned, and the size of the cache before it
  scans,          \* BackgroundService.scanUrl: the calls in the order they were made, each
                  \* with the await it is suspended at and what it has done so far
  storage,        \* chrome.storage.sync: the value stored under 'config' (None = none)
  httpResponse,   \* VirusTotalController.scanUrl: the HTTP response to POST
                  \* api/virustotal/scan (None until it has answered)
  isScanning,     \* VirusTotalScanner.isScanning, as it is between two event handlers
  outstanding,    \* the 'scanUrl' messages the content script has sent whose response
                  \* callback has not run yet, in the order they were sent
  buttonsVisible, \* VirusTotalScanner.buttonsVisible
  buttons,        \* the .vt-persistent-scan-btn elements in document order: the value
                  \* of style.display of each ("" when its cssText sets none)
  anchors,        \* how many a[href] links of the page have no dataset.vtScanned yet
  updateTimers,   \* how many 500 ms timers of observePageChanges are pending
  floating,       \* the element with id 'vt-scan-button': the showScanOption call that
                  \* created it and when (None = no such element)
  hideTimers,     \* the pending 5 s timers of showScanOption: the call that started
                  \* each and when it is due
  shown,          \* how many showScanOption calls have run
  updates,        \* BackgroundService.updateConfig: the calls, each with its argument,
                  \* the await it is suspended at and the config it read
  initConfig      \* BackgroundService.initializeConfig: the await it is suspended at

vars == <<impl, apiKey, entry, pc, urlStr, t0, msArg, clock, start, intervalMs, timeoutMs,
          initialReport, finalReport, analysisId, lastStatus, lastAnswer, job, trace, raised, rejected, result,
          cache, cacheOps, lastOp, scans, storage, httpResponse,
          isScanning, outstanding, buttonsVisible, buttons, anchors, updateTimers, floating,
          hideTimers, shown, updates, initConfig>>

----------------------------------------------------------------------------
(* Optional values *)

None == <<>>
Some(v) == <<v>>
IsSome(o) == o # <<>>
Get(o) == o[1]

\* JavaScript `x || d` on an optional number: undefined, null and 0 are falsy.
OrNum(o, d) == IF IsSome(o) /\ Get(o) # 0 THEN Get(o) ELSE d

\* JavaScript truthiness of an optional number.
TruthyNum(o) == IsSome(o) /\ Get(o) # 0

\* JavaScript truthiness of an optional string.
TruthyStr(o) == IsSome(o) /\ Get(o) # ""

----------------------------------------------------------------------------
(* Two-limb milliseconds *)

Ms(sec, rem) == [s |-> sec, r |-> rem]

\* tsSec * 1000
SecToMs(tsSec) == Ms(tsSec, 0)

\* a - b on two-limb numbers, normalised so that 0 <= r < 1000
MsSub(a, b) ==
  IF a.r >= b.r THEN Ms(a.s - b.s, a.r - b.r)
                ELSE Ms(a.s - b.s - 1, a.r - b.r + 1000)

\* a + n for a plain millisecond count n >= 0
MsAddInt(a, n) == Ms(a.s + ((a.r + n) \div 1000), (a.r + n) % 1000)

MsGreater(a, b) == a.s > b.s \/ (a.s = b.s /\ a.r > b.r)

MsNegative(a) == a.s < 0

----------------------------------------------------------------------------
(* Identifier encoder *)

\* The base64 alphabet, index 0..63 at positions 1..64.
B64Alphabet ==
  << "A","B","C","D","E","F","G","H","I","J","K","L","M","N","O","P",
     "Q","R","S","T","U","V","W","X","Y","Z","a","b","c","d","e","f",
     "g","h","i","j","k","l","m","n","o","p","q","r","s","t","u","v",
     "w","x","y","z","0","1","2","3","4","5","6","7","8","9","+","/" >>

B64Char(i) == B64Alphabet[i + 1]

\* Buffer.from(input, 'utf8') / TextEncoder: the UTF-8 bytes of one code point.
Utf8OfCodePoint(cp) ==
  IF cp < 128 THEN << cp >>
  ELSE IF cp < 2048 THEN << 192 + (cp \div 64), 128 + (cp % 64) >>
  ELSE IF cp < 65536
    THEN << 224 + (cp \div 4096), 128 + ((cp \div 64) % 64), 128 + (cp % 64) >>
    ELSE << 240 + (cp \div 262144), 128 + ((cp \div 4096) % 64),
            128 + ((cp \div 64) % 64), 128 + (cp % 64) >>

\* (In the recursive operators of this section the argument is bound once, as
\* the only element of a set, so that each level evaluates it a single time.)
RECURSIVE Utf8(_)
Utf8(str) ==
  CHOOSE bytes \in { IF s = << >> THEN << >>
                                  ELSE Utf8OfCodePoint(Head(s)) \o Utf8(Tail(s)) : s \in {str} } : TRUE

\* .toString('base64') / btoa: standard base64 with '=' padding, as a sequence
\* of one-character strings.
RECURSIVE Base64(_)
Base64(bytes) ==
  CHOOSE chars \in {
      IF Len(b) = 0 THEN << >>
      ELSE IF Len(b) = 1 THEN
        << B64Char(b[1] \div 4), B64Char((b[1] % 4) * 16), "=", "=" >>
      ELSE IF Len(b) = 2 THEN
        << B64Char(b[1] \div 4),
           B64Char((b[1] % 4) * 16 + (b[2] \div 16)),
           B64Char((b[2] % 16) * 4), "=" >>
      ELSE
        << B64Char(b[1] \div 4),
           B64Char((b[1] % 4) * 16 + (b[2] \div 16)),
           B64Char((b[2] % 16) * 4 + (b[3] \div 64)),
           B64Char(b[3] % 64) >> \o Base64(SubSeq(b, 4, Len(b)))
    : b \in {bytes} } : TRUE

\* .replace(/x/g, y) on a sequence of characters
ReplaceAll(chars, x, y) == [i \in 1..Len(chars) |-> IF chars[i] = x THEN y ELSE chars[i]]

\* Mutant: only one padding character is removed (/=$/ for /=+$/).
StripOneTrailingEq(chars) ==
  IF Len(chars) > 0 /\ chars[Len(chars)] = "="
    THEN SubSeq(chars, 1, Len(chars) - 1)
    ELSE chars

\* .replace(/=+$/, '')
RECURSIVE StripTrailingEq(_)
StripTrailingEq(chars) ==
  CHOOSE stripped \in { IF Len(c) > 0 /\ c[Len(c)] = "="
                          THEN StripTrailingEq(SubSeq(c, 1, Len(c) - 1))
                          ELSE c : c \in {chars} } : TRUE

RECURSIVE Join(_)
Join(chars) ==
  CHOOSE str \in { IF c = << >> THEN "" ELSE Head(c) \o Join(Tail(c)) : c \in {chars} } : TRUE

b64urlChars(input) ==
  StripTrailingEq(ReplaceAll(ReplaceAll(Base64(Utf8(input)), "+", "-"), "/", "_"))

b64url(input) == Join(b64urlChars(input))

----------------------------------------------------------------------------
(* Formatting *)

Pad(n, width) ==
  IF width = 4
    THEN (IF n < 10 THEN "000" ELSE IF n < 100 THEN "00" ELSE IF n < 1000 THEN "0" ELSE "")
         \o ToString(n)
    ELSE (IF n < 10 THEN "0" ELSE "") \o ToString(n)

\* new Date(tsSec * 1000).toISOString() for tsSec >= 0: the proleptic Gregorian
\* UTC date and time of that instant, "YYYY-MM-DDTHH:mm:ss.000Z".
IsoOfSeconds(tsSec) ==
  LET days == tsSec \div 86400
      sod  == tsSec % 86400
      z    == days + 719468
      era  == z \div 146097
      doe  == z - era * 146097
      yoe  == (doe - (doe \div 1460) + (doe \div 36524) - (doe \div 146096)) \div 365
      doy  == doe - (365 * yoe + (yoe \div 4) - (yoe \div 100))
      mp   == (5 * doy + 2) \div 153
      d    == doy - ((153 * mp + 2) \div 5) + 1
      m    == IF mp < 10 THEN mp + 3 ELSE mp - 9
      y    == yoe + era * 400 + (IF m <= 2 THEN 1 ELSE 0)
  IN  Pad(y, 4) \o "-" \o Pad(m, 2) \o "-" \o Pad(d, 2) \o "T"
      \o Pad(sod \div 3600, 2) \o ":" \o Pad((sod \div 60) % 60, 2) \o ":"
      \o Pad(sod % 60, 2) \o ".000Z"

\* Mutant: the timestamp is taken as milliseconds (the `* 1000` is missing).
toIsoOfMillis(tsSec) ==
  IF ~TruthyNum(tsSec) THEN None ELSE Some(IsoOfSeconds(Get(tsSec) \div 1000))

\* `if (!tsSec) return null; return new Date(tsSec * 1000).toISOString()`
toIso(tsSec) == IF ~TruthyNum(tsSec) THEN None ELSE Some(IsoOfSeconds(Get(tsSec)))

\* Mutant: a month has 31 days.
humanizeDurationMonth31(d) ==
  IF ~IsSome(d) \/ MsNegative(Get(d)) THEN "unknown"
  ELSE
    LET sec    == Get(d).s
        mins   == sec \div 60
        hours  == mins \div 60
        days   == hours \div 24
        months == days \div 31
    IN  IF months >= 1
          THEN ToString(months) \o " month" \o (IF months > 1 THEN "s" ELSE "")
               \o " " \o ToString(days % 31) \o "d"
        ELSE IF days >= 1 THEN ToString(days) \o "d " \o ToString(hours % 24) \o "h"
        ELSE IF hours >= 1 THEN ToString(hours) \o "h " \o ToString(mins % 60) \o "m"
        ELSE IF mins >= 1 THEN ToString(mins) \o "m"
        ELSE ToString(sec) \o "s"

\* Mutant: the seconds are rounded to the nearest instead of floored.
humanizeDurationRounded(d) ==
  IF ~IsSome(d) \/ MsNegative(Get(d)) THEN "unknown"
  ELSE
    LET sec    == Get(d).s + (IF Get(d).r >= 500 THEN 1 ELSE 0)
        mins   == sec \div 60
        hours  == mins \div 60
        days   == hours \div 24
        months == days \div 30
    IN  IF months >= 1
          THEN ToString(months) \o " month" \o (IF months > 1 THEN "s" ELSE "")
               \o " " \o ToString(days % 30) \o "d"
        ELSE IF days >= 1 THEN ToString(days) \o "d " \o ToString(hours % 24) \o "h"
        ELSE IF hours >= 1 THEN ToString(hours) \o "h " \o ToString(mins % 60) \o "m"
        ELSE IF mins >= 1 THEN ToString(mins) \o "m"
        ELSE ToString(sec) \o "s"

\* d is an optional two-limb duration (None = null).
humanizeDuration(d) ==
  IF ~IsSome(d) \/ MsNegative(Get(d)) THEN "unknown"
  ELSE
    LET sec    == Get(d).s
        mins   == sec \div 60
        hours  == mins \div 60
        days   == hours \div 24
        months == days \div 30
    IN  IF months >= 1
          THEN ToString(months) \o " month" \o (IF months > 1 THEN "s" ELSE "")
               \o " " \o ToString(days % 30) \o "d"
        ELSE IF days >= 1 THEN ToString(days) \o "d " \o ToString(hours % 24) \o "h"
        ELSE IF hours >= 1 THEN ToString(hours) \o "h " \o ToString(mins % 60) \o "m"
        ELSE IF mins >= 1 THEN ToString(mins) \o "m"
        ELSE ToString(sec) \o "s"

----------------------------------------------------------------------------
(* Verdict summarizer *)

\* `{}` as UrlReportAttributes: every field undefined.
EmptyAttributes ==
  [ last_analysis_date   |-> None,
    last_submission_date |-> None,
    times_submitted      |-> None,
    last_analysis_stats  |-> None,
    total_votes          |-> None ]

\* The literal `{ harmless: 0, malicious: 0, suspicious: 0, timeout: 0, undetected: 0 }`.
ZeroStats ==
  [ harmless |-> Some(0), malicious |-> Some(0), suspicious |-> Some(0),
    timeout |-> Some(0), undetected |-> Some(0) ]

\* The literal `{ harmless: 0, malicious: 0 }`.
ZeroVotes == [ harmless |-> Some(0), malicious |-> Some(0) ]

\* 30 * 24 * 60 * 60 * 1000, two-limb
ThirtyDaysMs == Ms(30 * 24 * 60 * 60, 0)

\* `report?.data?.attributes`: a report is None (null) or Some([attributes |-> optional record]).
AttributesOf(report) == IF IsSome(report) THEN Get(report).attributes ELSE None

\* Mutant: the engine verdict also weighs malicious community votes.
UnsafeCountingVotes(lastAnalysisStats, totalVotes) ==
  \/ OrNum(lastAnalysisStats.malicious, 0) + OrNum(lastAnalysisStats.suspicious, 0) > 0
  \/ OrNum(totalVotes.malicious, 0) > 0

\* service: "Community votes are less reliable and should not override engine results"
UnsafeService(lastAnalysisStats, totalVotes) ==
  OrNum(lastAnalysisStats.malicious, 0) + OrNum(lastAnalysisStats.suspicious, 0) > 0

\* Mutant: the standalone verdict leaves the community votes out as well.
UnsafeStandaloneEnginesOnly(lastAnalysisStats, totalVotes) ==
  OrNum(lastAnalysisStats.malicious, 0) + OrNum(lastAnalysisStats.suspicious, 0) > 0

\* standalone: "Unsafe if any malicious or suspicious or any negative community votes"
UnsafeStandalone(lastAnalysisStats, totalVotes) ==
  \/ OrNum(lastAnalysisStats.malicious, 0) + OrNum(lastAnalysisStats.suspicious, 0) > 0
  \/ OrNum(totalVotes.malicious, 0) > 0

\* Mutant: every known age counts as stale.
IsStaleAlways(staleAgeMs) == TRUE

\* Mutant: an age of exactly 30 days is stale already.
IsStaleInclusive(staleAgeMs) == ~MsGreater(ThirtyDaysMs, staleAgeMs)

\* `staleAgeMs > 30 * 24 * 60 * 60 * 1000`
IsStale(staleAgeMs) == MsGreater(staleAgeMs, ThirtyDaysMs)

\* Mutant: the submission age is taken from last_analysis_date.
LastSubmittedAgoMsOfAnalysis(initialAttr, now) ==
  IF IsSome(initialAttr) /\ TruthyNum(Get(initialAttr).last_analysis_date)
    THEN Some(MsSub(now, SecToMs(Get(Get(initialAttr).last_analysis_date))))
    ELSE None

\* `if (initialAttr?.last_submission_date) lastSubmittedAgoMs = now - ... * 1000`,
\* null otherwise.
LastSubmittedAgoMs(initialAttr, now) ==
  IF IsSome(initialAttr) /\ TruthyNum(Get(initialAttr).last_submission_date)
    THEN Some(MsSub(now, SecToMs(Get(Get(initialAttr).last_submission_date))))
    ELSE None

\* The body common to both summarize functions; `now` is Date.now() (two-limb),
\* `which` selects the implementation's `unsafe` expression.
SummarizeWith(which, url, initial, final, now) ==
  LET initialAttr == AttributesOf(initial)
      finalAttr   == IF IsSome(AttributesOf(final)) THEN Get(AttributesOf(final))
                                                    ELSE EmptyAttributes
      lastAnalysisStats == IF IsSome(finalAttr.last_analysis_stats)
                             THEN Get(finalAttr.last_analysis_stats) ELSE ZeroStats
      totalVotes == IF IsSome(finalAttr.total_votes)
                      THEN Get(finalAttr.total_votes) ELSE ZeroVotes
      unsafe == IF which = "service" THEN UnsafeService(lastAnalysisStats, totalVotes)
                                     ELSE UnsafeStandalone(lastAnalysisStats, totalVotes)
      hasAnalysisDate == IsSome(initialAttr) /\ TruthyNum(Get(initialAttr).last_analysis_date)
      staleAgeMs == IF hasAnalysisDate
                      THEN Some(MsSub(now, SecToMs(Get(Get(initialAttr).last_analysis_date))))
                      ELSE None
      wasStale == IF hasAnalysisDate THEN IsStale(Get(staleAgeMs)) ELSE FALSE
      lastSubmittedAgoMs == LastSubmittedAgoMs(initialAttr, now)
  IN  [ url                  |-> url,
        wasStale             |-> wasStale,
        stale_age_human      |-> IF wasStale THEN humanizeDuration(staleAgeMs) ELSE "fresh",
        last_submitted_ago   |-> IF IsSome(lastSubmittedAgoMs)
                                   THEN humanizeDuration(lastSubmittedAgoMs) ELSE "unknown",
        last_analysis_date   |-> toIso(finalAttr.last_analysis_date),
        last_submission_date |-> toIso(finalAttr.last_submission_date),
        times_submitted      |-> finalAttr.times_submitted,
        total_votes          |-> [ harmless  |-> OrNum(totalVotes.harmless, 0),
                                   malicious |-> OrNum(totalVotes.malicious, 0) ],
        last_analysis_stats  |-> [ harmless   |-> OrNum(lastAnalysisStats.harmless, 0),
                                   malicious  |-> OrNum(lastAnalysisStats.malicious, 0),
                                   suspicious |-> OrNum(lastAnalysisStats.suspicious, 0),
                                   timeout    |-> OrNum(lastAnalysisStats.timeout, 0),
                                   undetected |-> OrNum(lastAnalysisStats.undetected, 0) ],
        safe                 |-> ~unsafe ]

\* Mutant: a post-scan report without attributes is replaced by the pre-scan
\* report.
summarizeFallingBack(url, initial, final, now) ==
  SummarizeWith("service", url, initial,
                IF IsSome(AttributesOf(final)) THEN final ELSE initial, now)

\* VirusTotalService.summarize
summarize(url, initial, final, now) == SummarizeWith("service", url, initial, final, now)

\* summarize of the standalone script
summarizeStandalone(url, initial, final, now) ==
  SummarizeWith("standalone", url, initial, final, now)

----------------------------------------------------------------------------
(* Bounds and input domains *)

\* The longest an upstream request takes, in milliseconds; a request takes
\* either no measurable time or this long.
MaxFetchMs == 60000

FetchDurations == {0, MaxFetchMs}

\* Seconds since the epoch at which calls begin (2026-11-01T00:00:00Z), and the
\* millisecond part of Date.now() at that moment.
EpochNowSec == 20758 * 24 * 60 * 60

T0s == { Ms(EpochNowSec, 0), Ms(EpochNowSec, 1) }

DaySec == 24 * 60 * 60

ApiKeys == { "", "vt-key" }

Attributes(lad, lsd, ts, stats, votes) ==
  [ last_analysis_date   |-> lad,
    last_submission_date |-> lsd,
    times_submitted      |-> ts,
    last_analysis_stats  |-> stats,
    total_votes          |-> votes ]

Stats(h, m, s, t, u) ==
  [ harmless |-> h, malicious |-> m, suspicious |-> s, timeout |-> t, undetected |-> u ]

Votes(h, m) == [ harmless |-> h, malicious |-> m ]

Report(attr) == Some([ attributes |-> attr ])

\* Report bodies the upstream answers a report GET with during a scan: one
\* without attributes, one analysed 40 days ago with a clean engine result and
\* malicious community votes, one analysed 29 days ago with detections and
\* partly missing fields.
ScanReports ==
  { Report(None),
    Report(Some(Attributes(Some(EpochNowSec - 40 * DaySec), Some(EpochNowSec - 50 * DaySec),
                           Some(2), Some(Stats(Some(70), Some(0), Some(0), Some(0), Some(2))),
                           Some(Votes(Some(5), Some(3)))))),
    Report(Some(Attributes(Some(EpochNowSec - 29 * DaySec), None,
                           None, Some(Stats(Some(60), Some(1), None, Some(0), None)),
                           None))) }

\* The URLs ("http://a.b/?~" and the malformed "a b") and the clock of the
\* scan runs.
ScanUrls == { << 104, 116, 116, 112, 58, 47, 47, 97, 46, 98, 47, 63, 126 >>,
              << 97, 32, 98 >> }
ScanT0s == { Ms(EpochNowSec, 1) }

\* The decorators of ScanUrlDto.url, as far as the inputs here need them:
\* @IsNotEmpty rejects the empty string, and @IsUrl rejects (among others)
\* every string that holds white space or an angle bracket.
IsUrl(str) ==
  /\ Len(str) > 0
  /\ \A i \in 1..Len(str) : str[i] \notin { 9, 10, 13, 32, 60, 62 }

\* The well-formed one of the scan URLs.
ScanUrlWellFormed == CHOOSE u \in ScanUrls : IsUrl(u)

----------------------------------------------------------------------------
(* Upstream client *)

\* What `await fetch(url, opts)` produces: status 0 stands for fetch rejecting
\* (no HTTP response at all); otherwise an HTTP response with its status, its
\* status text, its body text and, for a JSON body, the parsed body.
Response(status, statusText, text, json) ==
  [ status |-> status, statusText |-> statusText, text |-> text, json |-> json ]

\* HTTP failures the upstream answers with.
ErrorResponses ==
  { Response(0, "", "", None),
    Response(403, "Forbidden", "", None),
    Response(429, "Too Many Requests", "quota exceeded", None),
    Response(500, "Internal Server Error", "", None) }

NotFoundResponse == Response(404, "Not Found", "", None)

ReportResponses ==
  { Response(200, "OK", "", r) : r \in ScanReports } \cup {NotFoundResponse} \cup ErrorResponses

\* The body of a submit answer: data.id present, empty or missing.
SubmitResponses ==
  { Response(200, "OK", "", Some([ id |-> i ])) : i \in { Some("u-1"), Some(""), None } }
    \cup {NotFoundResponse} \cup ErrorResponses

JobStatuses == { "queued", "running", "completed", "failed", "" }

\* The body of a job-status answer: data.attributes.status present or missing.
StatusResponses ==
  { Response(200, "OK", "", Some([ status |-> st ])) : st \in { Some(x) : x \in JobStatuses } \cup {None} }
    \cup {NotFoundResponse} \cup ErrorResponses

Error(message) == [ message |-> message ]

Returned(value) == [ threw |-> FALSE, value |-> value, error |-> None ]
Threw(error) == [ threw |-> TRUE, value |-> None, error |-> Some(error) ]

\* The catch block of the service's fetchJson: logs and rethrows.
fetchJsonCatch(error) == error

\* Mutant: 404 is an error like every other non-2xx status.
fetchJsonNo404(res) ==
  IF res.status = 0 THEN Threw(fetchJsonCatch(Error("fetch failed")))
  ELSE IF res.status >= 200 /\ res.status <= 299 THEN Returned(res.json)
  ELSE Threw(fetchJsonCatch(Error("HTTP " \o ToString(res.status) \o ": "
                                  \o (IF res.text # "" THEN res.text ELSE res.statusText))))

\* Mutant: a client or server error status yields null, as 404 does.
fetchJsonNullOnError(res) ==
  IF res.status = 0 THEN Threw(fetchJsonCatch(Error("fetch failed")))
  ELSE IF res.status >= 200 /\ res.status <= 299 THEN Returned(res.json)
  ELSE IF res.status >= 400 THEN Returned(None)
  ELSE Threw(fetchJsonCatch(Error("HTTP " \o ToString(res.status) \o ": "
                                  \o (IF res.text # "" THEN res.text ELSE res.statusText))))

\* fetchJson of the service, applied to what fetch produced. The standalone
\* fetchJson is the same without the catch block.
fetchJson(res) ==
  IF res.status = 0 THEN Threw(fetchJsonCatch(Error("fetch failed")))
  ELSE IF res.status >= 200 /\ res.status <= 299 THEN Returned(res.json)
  ELSE IF res.status = 404 THEN Returned(None)
  ELSE Threw(fetchJsonCatch(Error("HTTP " \o ToString(res.status) \o ": "
                                  \o (IF res.text # "" THEN res.text ELSE res.statusText))))

\* `json?.data?.id`
SubmittedId(json) == IF IsSome(json) THEN Get(json).id ELSE None

\* Mutant: only a missing id counts as missing, an empty one is returned.
MissingAnalysisIdOnlyUndefined(json) == ~IsSome(SubmittedId(json))

\* `!json?.data?.id`: the submit answer is null, or has no id, or an empty one.
MissingAnalysisId(json) == ~TruthyStr(SubmittedId(json))

\* `json?.data?.attributes?.status`
StatusOf(json) == IF IsSome(json) THEN Get(json).status ELSE None

----------------------------------------------------------------------------
(* Requests and errors *)

\* An entry of the trace: what the step did (kind) and, for a request, its
\* method, its path below VT_BASE and its body.
\* GET ${VT_BASE}/urls/${id}
ReportRequest(url) ==
  [ kind |-> "report", op |-> "GET", target |-> "urls/" \o b64url(url), body |-> << >> ]

\* POST ${VT_BASE}/urls with body url=<urlStr>
SubmitRequest(url) == [ kind |-> "submit", op |-> "POST", target |-> "urls", body |-> url ]

\* GET ${VT_BASE}/analyses/${analysisId}
StatusRequest(id) ==
  [ kind |-> "status", op |-> "GET", target |-> "analyses/" \o id, body |-> << >> ]

\* await sleep(ms)
SleepEvent(ms) == [ kind |-> "sleep", op |-> "", target |-> ToString(ms), body |-> << >> ]

\* summarize(urlStr, initialReport, finalReport)
SummarizeEvent == [ kind |-> "summarize", op |-> "", target |-> "", body |-> << >> ]

IsReportGet(e) == e.kind = "report"
IsSubmit(e) == e.kind = "submit"
IsStatusGet(e) == e.kind = "status"
IsSleep(e) == e.kind = "sleep"
IsSummarize(e) == e.kind = "summarize"

Count(seq, P(_)) == Cardinality({ i \in 1..Len(seq) : P(seq[i]) })

MissingKeyServiceError == Error("VIRUS_TOTAL_API_KEY is required in environment variables")
MissingKeyStandaloneError == Error("Please set VIRUS_TOTAL_API_KEY in your .env file.")
NoAnalysisIdError == Error("No analysis ID returned from VirusTotal.")
UnexpectedStatusError(status) == Error("Unexpected analysis status: " \o status)
TimeoutError == Error("Timed out waiting for analysis to complete.")
FinalReportMissingError == Error("Final report not found after analysis.")

\* Mutant: the catch block throws a new error instead of the one it caught.
scanUrlCatchWrapped(error) == [ message |-> "Scan failed: " \o error.message ]

\* The catch block of the service's scanUrl: logs and rethrows.
scanUrlCatch(error) == error

\* What the caller of the operation receives when `error` is thrown inside it.
Propagated(error) ==
  IF entry = "scanUrl" /\ impl = "service" THEN scanUrlCatch(error) ELSE error

\* waitForAnalysis defaults: { intervalMs = 3000, timeoutMs = 180000 }
DefaultIntervalMs == 3000
DefaultTimeoutMs == 180000

\* Date.now() as the two-limb number
DateNow(c) == MsAddInt(t0, c)

----------------------------------------------------------------------------
(* waitForAnalysis: the pieces of the loop *)

\* WaitOptions: each option present or left out
Options(i, t) == [ intervalMs |-> i, timeoutMs |-> t ]

NoOptions == Options(None, None)

\* `{ intervalMs = 3000, timeoutMs = 180000 }: WaitOptions = {}`
ResolveInterval(opts) == IF IsSome(opts.intervalMs) THEN Get(opts.intervalMs) ELSE DefaultIntervalMs
ResolveTimeout(opts) == IF IsSome(opts.timeoutMs) THEN Get(opts.timeoutMs) ELSE DefaultTimeoutMs

\* Mutant: the first iteration runs unchecked (a do-while loop).
LoopGuardAfterFirst(now, startedAt, timeout) == now = startedAt \/ now - startedAt < timeout

\* Mutant: the deadline itself still starts an iteration.
LoopGuardInclusive(now, startedAt, timeout) == now - startedAt <= timeout

\* `while (Date.now() - start < timeoutMs)`
LoopGuard(now, startedAt, timeout) == now - startedAt < timeout

\* Mutant: a running job is taken for a finished one.
IsCompletedLoose(status) == status = Some("completed") \/ status = Some("running")

\* Mutant: the terminal status is misspelt.
IsCompletedTypo(status) == status = Some("complete")

\* `status === 'completed'`
IsCompleted(status) == status = Some("completed")

\* Mutant: the check for an unexpected status is left out.
IsUnexpectedNever(status) == FALSE

\* `status && status !== 'queued' && status !== 'running'`
IsUnexpected(status) ==
  TruthyStr(status) /\ Get(status) # "queued" /\ Get(status) # "running"

\* The head of the loop, evaluated at clock value c with trace tr: either the
\* next status request is issued or the timeout error is thrown.
LoopHead(c, startedAt, timeout, tr, id) ==
  IF LoopGuard(c, startedAt, timeout)
    THEN /\ pc' = "await_status"
         /\ trace' = Append(tr, StatusRequest(id))
         /\ UNCHANGED << raised, rejected >>
    ELSE /\ pc' = "failed"
         /\ trace' = tr
         /\ raised' = Some(TimeoutError)
         /\ rejected' = Some(Propagated(TimeoutError))

\* Mutant: the interval is taken for seconds.
sleepSeconds(ms) == ms * 1000

\* Mutant: the timer fires at once.
sleepNone(ms) == 0

\* Mutant: the sleep backs off to twice the interval.
sleepTwice(ms) == 2 * ms

\* `setTimeout(res, ms)`: how long sleep(ms) suspends
sleep(ms) == ms

\* Mutant: the null check of the post-scan report is left out.
FinalReportMissingNever(report) == FALSE

\* `if (!finalReport)`
FinalReportMissing(report) == ~IsSome(report)

\* The answer with HTTP status `status` that ended the await `of`.
Answer(of, status) == Some([ of |-> of, status |-> status ])

\* A throw that ends the operation.
Fails(error) ==
  /\ pc' = "failed"
  /\ raised' = Some(error)
  /\ rejected' = Some(Propagated(error))

inputs == << impl, apiKey, entry, urlStr, t0, msArg >>

\* The state of the extension's BackgroundService.
background == << cache, cacheOps, lastOp, scans, storage >>

\* The state of the content script (VirusTotalScanner) in one page.
content == << isScanning, outstanding, buttonsVisible, buttons, anchors, updateTimers,
             floating, hideTimers, shown >>

\* The configuration calls of the BackgroundService that are under way.
configuring == << updates, initConfig >>

\* How many a[href] links the page has when the content script is loaded.
InitialLinks == 1

\* The content script after its constructor and init(): addPersistentScanButtons
\* has given every link of the page a button, whose cssText sets no display.
InitContent ==
  /\ isScanning = FALSE
  /\ outstanding = << >>
  /\ buttonsVisible = TRUE
  /\ buttons = [ i \in 1..InitialLinks |-> "" ]
  /\ anchors = 0
  /\ updateTimers = 0
  /\ floating = <<>>
  /\ hideTimers = {}
  /\ shown = 0

\* The BackgroundService after its constructor: init() has called
\* initializeConfig, which is suspended at chrome.storage.sync.get, and no
\* 'updateConfig' message has arrived.
InitConfiguring ==
  /\ updates = << >>
  /\ initConfig = "get"

----------------------------------------------------------------------------
(* Result cache of the extension's BackgroundService *)

\* `24 * 60 * 60 * 1000; // 24 hours`
CACHE_DURATION == 24 * 60 * 60 * 1000

\* `if (this.cache.size > 1000)` and `for (let i = 0; i < 100; i++)`
MaxCacheEntries == 1000
EvictCount == 100

\* One entry of the Map: the key and the value `{ result, timestamp }`.
Entry(url, res, timestamp) == [ url |-> url, result |-> res, timestamp |-> timestamp ]

\* Map.prototype.get: the value stored under the key, None when there is none.
MapGet(m, key) ==
  IF \E i \in 1..Len(m) : m[i].url = key
    THEN Some(m[CHOOSE i \in 1..Len(m) : m[i].url = key])
    ELSE None

\* Mutant: storing a value drops every other key.
MapSetClearing(m, key, res, timestamp) == << Entry(key, res, timestamp) >>

\* Map.prototype.set: the value of a key the map holds already is replaced where
\* it is; a new key is added at the end.
MapSet(m, key, res, timestamp) ==
  IF \E i \in 1..Len(m) : m[i].url = key
    THEN [ i \in 1..Len(m) |-> IF m[i].url = key THEN Entry(key, res, timestamp) ELSE m[i] ]
    ELSE Append(m, Entry(key, res, timestamp))

\* Map.prototype.delete
MapDelete(m, key) == SelectSeq(m, LAMBDA e : e.url # key)

\* Mutant: an entry of exactly the cache duration is still served.
IsFreshInclusive(cached, now) == now - cached.timestamp <= CACHE_DURATION

\* `Date.now() - cached.timestamp < this.CACHE_DURATION`
IsFresh(cached, now) == now - cached.timestamp < CACHE_DURATION

\* getCachedResult(url) at time `now`: what it returns and the Map it leaves.
getCachedResult(m, url, now) ==
  LET cached == MapGet(m, url) IN
  IF IsSome(cached) /\ IsFresh(Get(cached), now)
    THEN [ value |-> Some(Get(cached).result), cache |-> m ]
    ELSE IF IsSome(cached)
      THEN [ value |-> None, cache |-> MapDelete(m, url) ]
      ELSE [ value |-> None, cache |-> m ]

\* Mutant: the sort is not stable, entries with equal timestamps change places.
CompareTimestampsTiesReversed(a, b) ==
  a.timestamp < b.timestamp \/ (a.timestamp = b.timestamp /\ a.pos > b.pos)

\* Mutant: the newest entries are sorted to the front.
CompareTimestampsDescending(a, b) ==
  b.timestamp < a.timestamp \/ (a.timestamp = b.timestamp /\ a.pos < b.pos)

\* `(a, b) => a[1].timestamp - b[1].timestamp` is negative; Array.prototype.sort
\* is stable, so entries with equal timestamps keep their order (pos).
CompareTimestamps(a, b) ==
  a.timestamp < b.timestamp \/ (a.timestamp = b.timestamp /\ a.pos < b.pos)

\* `Array.from(this.cache.entries())` sorted by `entries.sort(...)`.
SortedEntries(m) ==
  SortSeq([ i \in 1..Len(m) |-> [ url |-> m[i].url, timestamp |-> m[i].timestamp, pos |-> i ] ],
          CompareTimestamps)

\* Mutant: the clean-up starts one entry later.
CacheTooLargeLate(size) == size > MaxCacheEntries + 1

\* `this.cache.size > 1000`
CacheTooLarge(size) == size > MaxCacheEntries

\* setCachedResult(url, result) at time `now`: the Map it leaves.
setCachedResult(m, url, res, now) ==
  LET stored == MapSet(m, url, res, now) IN
  IF CacheTooLarge(Len(stored))
    THEN LET entries == SortedEntries(stored)
             oldest  == { entries[i].url : i \in 1..EvictCount }
         IN  SelectSeq(stored, LAMBDA e : e.url \notin oldest)
    ELSE stored

\* lastOp before any cache operation, and after one.
NoOp == [ op |-> "none", url |-> << >>, result |-> None, before |-> 0 ]
Op(op, url, res, before) == [ op |-> op, url |-> url, result |-> res, before |-> before ]

\* How many cache operations a run makes.
MaxCacheOps == 2

\* The key of the i-th result of a prefilled cache ("u" and one more character).
PrefilledUrl(i) == << 117, i >>

\* The result a put stores (the ScanResult, of which the cache reads nothing).
CacheResults == { [ url |-> "scanned", safe |-> FALSE ] }

\* The URLs of the operations: one that the prefilled caches hold and the
\* well-formed scan URL, which they do not hold.
CacheUrls == { PrefilledUrl(1) } \cup { u \in ScanUrls : IsUrl(u) }

\* The time between two operations: none, or the cache duration.
AdvanceDurations == { 0, CACHE_DURATION }

----------------------------------------------------------------------------
(* scanUrl of the extension's BackgroundService *)

\* ApiResponse<ScanResult>: data, error and message are optional.
ApiResponse(success, data, error, message) ==
  [ success |-> success, data |-> data, error |-> error, message |-> message ]

\* `defaultConfig`
defaultConfig ==
  [ apiEndpoint |-> "http://localhost:3000/api/virustotal",
    autoScan |-> TRUE, showNotifications |-> TRUE ]

\* getConfig(): `result.config || this.defaultConfig`, and the default when
\* chrome.storage.sync.get rejects. `stored` is None for both.
getConfig(stored) == IF IsSome(stored) THEN Get(stored) ELSE defaultConfig

\* Mutant: a cached result is never used.
IsHitNever(cached) == FALSE

\* `if (cached)`
IsHit(cached) == IsSome(cached)

\* The answer of a cache hit.
CachedAnswer(cached) ==
  ApiResponse(TRUE, Some(cached), None,
              Some("URL scan completed (cached): " \o (IF cached.safe THEN "SAFE" ELSE "UNSAFE")))

\* Mutant: the catch block leaves the error field out.
FailureAnswerWithoutError(errorMessage) ==
  [ success |-> FALSE, data |-> << >>, error |-> << >>,
    message |-> << "Failed to scan URL: " \o errorMessage >> ]

\* The answer the catch block builds from the message of the error it caught.
FailureAnswer(errorMessage) ==
  ApiResponse(FALSE, None, Some(errorMessage), Some("Failed to scan URL: " \o errorMessage))

\* The message of the error thrown for a response that is not ok: the body's
\* message or error when the body parses as JSON (res.json), else the status
\* line.
BackendErrorMessage(res) ==
  LET statusLine == "HTTP " \o ToString(res.status) \o ": " \o res.statusText IN
  IF ~IsSome(res.json) THEN statusLine
  ELSE IF TruthyStr(Get(res.json).message) THEN Get(Get(res.json).message)
  ELSE IF TruthyStr(Get(res.json).error) THEN Get(Get(res.json).error)
  ELSE statusLine

\* Mutant: whatever carries data is cached, the success flag is not looked at.
ShouldCacheAnyData(apiResponse) == IsSome(apiResponse.data)

\* Mutant: nothing is ever cached.
ShouldCacheNever(apiResponse) == FALSE

\* `result.success && result.data`
ShouldCache(apiResponse) == apiResponse.success /\ IsSome(apiResponse.data)

\* POST ${config.apiEndpoint}/scan with the body {"url": url}
BackendRequest(config, url) ==
  [ kind |-> "backend", op |-> "POST", target |-> config.apiEndpoint \o "/scan", body |-> url ]

\* The request is the POST of `url` to the scan route.
IsBackendScanOf(e, url) == e.kind = "backend" /\ e.op = "POST" /\ e.body = url

\* How many scanUrl calls a run makes.
MaxScans == 2

Requests == 1..MaxScans

\* One call of scanUrl: where it is, its url, whether the cache answered it,
\* the config it read, the backend request it issued, what the backend
\* answered, whether it called setCachedResult and showScanNotification, the
\* ApiResponse it returned, and how often handleMessage has called
\* sendResponse for it (`this.scanUrl(request.url).then(...)`: once the promise
\* of scanUrl is fulfilled).
Scan(at, url, hit, response) ==
  [ pc |-> at, url |-> url, hit |-> hit, config |-> None, request |-> None,
    answer |-> None, wrote |-> FALSE, notified |-> FALSE, response |-> response,
    sent |-> IF IsSome(response) THEN 1 ELSE 0 ]

IdleScan == Scan("idle", << >>, FALSE, None)

\* `config.showNotifications && result.success && result.data`
ShouldNotify(config, apiResponse) ==
  config.showNotifications /\ apiResponse.success /\ IsSome(apiResponse.data)

NoScans == [ r \in Requests |-> IdleScan ]

\* What chrome.storage.sync holds under 'config': nothing, or a config with
\* another endpoint and without notifications.
StoredConfigs ==
  { None,
    Some([ apiEndpoint |-> "https://vt.example/api/virustotal",
           autoScan |-> FALSE, showNotifications |-> FALSE ]) }

\* The ScanResult the backend answers with.
BackendResult ==
  [ url |-> "scanned", safe |-> FALSE,
    last_analysis_stats |-> [ malicious |-> 1, suspicious |-> 0, harmless |-> 0 ] ]

\* Data that is no ScanResult: an endpoint other than this repository's backend
\* answered without last_analysis_stats.
MalformedResult == [ url |-> "scanned", safe |-> FALSE ]

\* showScanNotification(result) reads result.last_analysis_stats.malicious: a
\* TypeError when the result has no last_analysis_stats.
showScanNotificationThrows(res) == "last_analysis_stats" \notin DOMAIN res

NotificationTypeError == "Cannot read properties of undefined (reading 'malicious')"

\* What the backend answers POST /scan with: no answer at all (status 0), the
\* controller's success body, a 200 body that says success without data or
\* failure with data, a 200 body whose data is no ScanResult, the controller's
\* timeout answer, and a gateway's error page that is not JSON.
BackendResponses ==
  { Response(0, "", "", None),
    Response(200, "OK", "",
             Some(ApiResponse(TRUE, Some(BackendResult), None,
                              Some("URL scan completed: UNSAFE")))),
    Response(200, "OK", "", Some(ApiResponse(TRUE, None, None, None))),
    Response(200, "OK", "", Some(ApiResponse(FALSE, Some(BackendResult), Some("Scan failed"), None))),
    Response(200, "OK", "", Some(ApiResponse(TRUE, Some(MalformedResult), None, None))),
    Response(408, "Request Timeout", "{...}",
             Some([ error |-> Some("Analysis timeout"),
                    message |-> Some("The URL analysis took too long to complete. Please try again.") ])),
    Response(502, "Bad Gateway", "<html>", None) }

----------------------------------------------------------------------------
(* VirusTotalController: POST api/virustotal/scan *)

\* String.prototype.includes
Includes(str, searchString) ==
  \E i \in 1..(Len(str) - Len(searchString) + 1) :
    SubSeq(str, i, i + Len(searchString) - 1) = searchString

\* `throw new HttpException(response, status)`: the framework answers with
\* that status and that body.
HttpException(response, status) == [ status |-> status, body |-> response ]

\* The body of an HttpException of the controller.
FailureBody(error, message) ==
  [ success |-> FALSE, data |-> None, error |-> Some(error), message |-> Some(message) ]

\* The catch block of the controller's scanUrl.
controllerCatch(error) ==
  IF Includes(error.message, "HTTP 403")
    THEN HttpException(FailureBody("Invalid or missing VirusTotal API key",
           "Please check your VIRUS_TOTAL_API_KEY configuration"), 403)
  ELSE IF Includes(error.message, "HTTP 429")
    THEN HttpException(FailureBody("Rate limit exceeded",
           "Too many requests to VirusTotal API. Please try again later."), 429)
  ELSE IF Includes(error.message, "Timed out")
    THEN HttpException(FailureBody("Analysis timeout",
           "The URL analysis took too long to complete. Please try again."), 408)
  ELSE HttpException(FailureBody("Scan failed",
         IF error.message # "" THEN error.message
           ELSE "An unexpected error occurred during URL scanning"), 500)

\* What the controller returns when the service returned `summary`; the
\* framework answers a @Post route with 201.
controllerReturn(summary) ==
  [ status |-> 201,
    body   |-> [ success |-> TRUE, data |-> Some(summary), error |-> None,
                 message |-> Some("URL scan completed: "
                                    \o (IF summary.safe THEN "SAFE" ELSE "UNSAFE")) ] ]

----------------------------------------------------------------------------
(* Actions *)

\* new VirusTotalService(configService): the constructor
Construct ==
  /\ pc = "new" /\ impl = "service"
  /\ IF apiKey = ""
       THEN /\ pc' = "construct_failed"
            /\ raised' = Some(MissingKeyServiceError)
            /\ rejected' = Some(MissingKeyServiceError)
       ELSE /\ pc' = "ready"
            /\ UNCHANGED << raised, rejected >>
  /\ UNCHANGED << content, configuring, inputs, httpResponse, background, clock, start, intervalMs, timeoutMs, initialReport, finalReport,
                  analysisId, lastStatus, job, trace, result >>
  /\ lastAnswer' = None

\* scanUrl(urlStr) / scanAndNotify(urlStr) up to its first await: the pre-scan
\* report request is issued (standalone: unless the key is missing).
ScanUrl ==
  /\ entry = "scanUrl"
  /\ \/ impl = "service" /\ pc = "ready"
     \/ impl = "standalone" /\ pc = "new"
  /\ IF impl = "standalone" /\ apiKey = ""
       THEN /\ Fails(MissingKeyStandaloneError)
            /\ UNCHANGED trace
       ELSE /\ pc' = "await_initial_report"
            /\ trace' = Append(trace, ReportRequest(urlStr))
            /\ UNCHANGED << raised, rejected >>
  /\ UNCHANGED << content, configuring, inputs, httpResponse, background, clock, start, intervalMs, timeoutMs, initialReport, finalReport,
                  analysisId, lastStatus, job, result >>
  /\ lastAnswer' = None

\* The pre-scan report answer arrives: `initialReport = await getUrlReport(urlStr)`,
\* then submitUrl issues its POST.
InitialReportResponse ==
  /\ pc = "await_initial_report"
  /\ \E res \in ReportResponses, d \in FetchDurations :
       LET out == fetchJson(res) IN
       /\ clock' = clock + d
       /\ lastAnswer' = Answer(pc, res.status)
       /\ IF out.threw
            THEN /\ Fails(Get(out.error))
                 /\ UNCHANGED << initialReport, trace >>
            ELSE /\ initialReport' = out.value
                 /\ pc' = "await_submit"
                 /\ trace' = Append(trace, SubmitRequest(urlStr))
                 /\ UNCHANGED << raised, rejected >>
  /\ UNCHANGED << content, configuring, inputs, httpResponse, background, start, intervalMs, timeoutMs, finalReport,
                  analysisId, lastStatus, job, result >>

\* The submit answer arrives: submitUrl returns the id or throws; on success
\* waitForAnalysis(analysisId) starts with the default options and reaches its
\* first await (or throws the timeout).
SubmitResponse ==
  /\ pc = "await_submit"
  /\ \E res \in SubmitResponses, d \in FetchDurations :
       LET out == fetchJson(res)
           id  == SubmittedId(out.value)
       IN
       /\ clock' = clock + d
       /\ lastAnswer' = Answer(pc, res.status)
       /\ IF out.threw
            THEN /\ Fails(Get(out.error))
                 /\ UNCHANGED << analysisId, start, intervalMs, timeoutMs, trace >>
            ELSE IF MissingAnalysisId(out.value)
              THEN /\ Fails(NoAnalysisIdError)
                   /\ UNCHANGED << analysisId, start, intervalMs, timeoutMs, trace >>
              ELSE /\ analysisId' = id
                   /\ intervalMs' = ResolveInterval(NoOptions)
                   /\ timeoutMs' = ResolveTimeout(NoOptions)
                   /\ start' = clock'
                   /\ LoopHead(clock', clock', ResolveTimeout(NoOptions), trace, Get(id))
  /\ UNCHANGED << content, configuring, inputs, httpResponse, background, initialReport, finalReport, lastStatus, job, result >>

\* waitForAnalysis(analysisId, opts) called directly, up to its first await.
WaitForAnalysis ==
  /\ entry = "waitForAnalysis" /\ pc = "new"
  /\ start' = clock
  /\ LoopHead(clock, clock, timeoutMs, trace, Get(analysisId))
  /\ UNCHANGED << content, configuring, inputs, httpResponse, background, clock, intervalMs, timeoutMs, initialReport, finalReport,
                  analysisId, lastStatus, job, result >>
  /\ lastAnswer' = None

\* A job-status answer arrives inside the loop of waitForAnalysis: return the
\* job, throw, or start sleeping. When scanUrl is the caller, the return goes
\* on to issue the post-scan report request.
StatusResponse ==
  /\ pc = "await_status"
  /\ \E res \in StatusResponses, d \in FetchDurations :
       LET out    == fetchJson(res)
           status == StatusOf(out.value)
       IN
       /\ clock' = clock + d
       /\ lastAnswer' = Answer(pc, res.status)
       /\ IF out.threw
            THEN /\ Fails(Get(out.error))
                 /\ UNCHANGED << lastStatus, job, trace >>
            ELSE /\ lastStatus' = status
                 /\ IF IsCompleted(status)
                      THEN /\ job' = out.value
                           /\ UNCHANGED << raised, rejected >>
                           /\ IF entry = "scanUrl"
                                THEN /\ pc' = "await_final_report"
                                     /\ trace' = Append(trace, ReportRequest(urlStr))
                                ELSE /\ pc' = "returned"
                                     /\ UNCHANGED trace
                      ELSE IF IsUnexpected(status)
                        THEN /\ Fails(UnexpectedStatusError(Get(status)))
                             /\ UNCHANGED << job, trace >>
                        ELSE /\ pc' = "sleeping"
                             /\ trace' = Append(trace, SleepEvent(intervalMs))
                             /\ UNCHANGED << job, raised, rejected >>
  /\ UNCHANGED << content, configuring, inputs, httpResponse, background, start, intervalMs, timeoutMs, initialReport, finalReport,
                  analysisId, result >>

\* `await sleep(intervalMs)` ends: back to the head of the loop.
SleepDone ==
  /\ pc = "sleeping"
  /\ clock' = clock + sleep(intervalMs)
  /\ lastStatus' = None
  /\ LoopHead(clock', start, timeoutMs, trace, Get(analysisId))
  /\ UNCHANGED << content, configuring, inputs, httpResponse, background, start, intervalMs, timeoutMs, initialReport, finalReport,
                  analysisId, job, result >>
  /\ lastAnswer' = None

\* The post-scan report answer arrives: throw when it is null, else summarize
\* and return the summary.
FinalReportResponse ==
  /\ pc = "await_final_report"
  /\ \E res \in ReportResponses, d \in FetchDurations :
       LET out == fetchJson(res) IN
       /\ clock' = clock + d
       /\ lastAnswer' = Answer(pc, res.status)
       /\ IF out.threw
            THEN /\ Fails(Get(out.error))
                 /\ UNCHANGED << finalReport, trace, result >>
            ELSE /\ finalReport' = out.value
                 /\ IF FinalReportMissing(out.value)
                      THEN /\ Fails(FinalReportMissingError)
                           /\ UNCHANGED << trace, result >>
                      ELSE /\ trace' = Append(trace, SummarizeEvent)
                           /\ result' = Some(IF impl = "service"
                                  THEN summarize(urlStr, initialReport, out.value, DateNow(clock'))
                                  ELSE summarizeStandalone(urlStr, initialReport, out.value,
                                                           DateNow(clock')))
                           /\ pc' = "returned"
                           /\ UNCHANGED << raised, rejected >>
  /\ UNCHANGED << content, configuring, inputs, httpResponse, background, start, intervalMs, timeoutMs, initialReport,
                  analysisId, lastStatus, job >>

\* summarize(urlStr, initialReport, finalReport) called directly.
Summarize ==
  /\ entry = "summarize" /\ pc = "new"
  /\ trace' = Append(trace, SummarizeEvent)
  /\ result' = Some(IF impl = "service"
                      THEN summarize(urlStr, initialReport, finalReport, DateNow(clock))
                      ELSE summarizeStandalone(urlStr, initialReport, finalReport, DateNow(clock)))
  /\ pc' = "returned"
  /\ UNCHANGED << content, configuring, inputs, httpResponse, background, clock, start, intervalMs, timeoutMs, initialReport, finalReport,
                  analysisId, lastStatus, job, raised, rejected >>
  /\ lastAnswer' = None

\* humanizeDuration(ms) called directly (the standalone script exports it).
HumanizeDuration ==
  /\ entry = "humanizeDuration" /\ pc = "new"
  /\ result' = Some(humanizeDuration(msArg))
  /\ pc' = "returned"
  /\ UNCHANGED << content, configuring, inputs, httpResponse, background, clock, start, intervalMs, timeoutMs, initialReport, finalReport,
                  analysisId, lastStatus, job, trace, raised, rejected >>
  /\ lastAnswer' = None

\* b64url(input) called directly (the standalone script exports it).
B64url ==
  /\ entry = "b64url" /\ pc = "new"
  /\ result' = Some(b64url(urlStr))
  /\ pc' = "returned"
  /\ UNCHANGED << content, configuring, inputs, httpResponse, background, clock, start, intervalMs, timeoutMs, initialReport, finalReport,
                  analysisId, lastStatus, job, trace, raised, rejected >>
  /\ lastAnswer' = None

\* getCachedResult(url), some time after the operation before it.
GetCachedResult ==
  /\ entry = "cache" /\ cacheOps < MaxCacheOps
  /\ \E url \in CacheUrls, d \in AdvanceDurations :
       LET out == getCachedResult(cache, url, clock + d) IN
       /\ clock' = clock + d
       /\ cache' = out.cache
       /\ lastOp' = Op("get", url, out.value, Len(cache))
  /\ cacheOps' = cacheOps + 1
  /\ UNCHANGED << content, configuring, inputs, httpResponse, scans, storage, pc, start, intervalMs, timeoutMs, initialReport, finalReport,
                  analysisId, lastStatus, lastAnswer, job, trace, raised, rejected, result >>

\* setCachedResult(url, result), some time after the operation before it.
SetCachedResult ==
  /\ entry = "cache" /\ cacheOps < MaxCacheOps
  /\ \E url \in CacheUrls, res \in CacheResults, d \in AdvanceDurations :
       /\ clock' = clock + d
       /\ cache' = setCachedResult(cache, url, res, clock + d)
       /\ lastOp' = Op("put", url, Some(res), Len(cache))
  /\ cacheOps' = cacheOps + 1
  /\ UNCHANGED << content, configuring, inputs, httpResponse, scans, storage, pc, start, intervalMs, timeoutMs, initialReport, finalReport,
                  analysisId, lastStatus, lastAnswer, job, trace, raised, rejected, result >>

\* handleMessage({action: 'scanUrl', url}) calls scanUrl(url), which runs up to
\* its first await: a cached result is returned, else getConfig() is awaited.
\* Calls are numbered in the order they are made; some time has passed since
\* the step before.
BackgroundScanUrl(r) ==
  /\ entry = "background" /\ scans[r].pc = "idle"
  /\ r > 1 => scans[r - 1].pc # "idle"
  /\ \E url \in CacheUrls, d \in AdvanceDurations :
       LET out == getCachedResult(cache, url, clock + d) IN
       /\ clock' = clock + d
       /\ cache' = out.cache
       /\ scans' = [ scans EXCEPT ![r] =
                       IF IsHit(out.value)
                         THEN Scan("returned", url, TRUE, Some(CachedAnswer(Get(out.value))))
                         ELSE Scan("await_config", url, FALSE, None) ]
  /\ UNCHANGED << content, configuring, inputs, httpResponse, cacheOps, lastOp, storage, pc, start, intervalMs, timeoutMs, initialReport,
                  finalReport, analysisId, lastStatus, lastAnswer, job, trace, raised, rejected,
                  result >>

\* `await this.getConfig()` ends and the backend request is issued.
BackgroundConfigLoaded(r) ==
  /\ entry = "background" /\ scans[r].pc = "await_config"
  /\ scans' = [ scans EXCEPT ![r].pc = "await_fetch",
                              ![r].config = Some(getConfig(storage)),
                              ![r].request = Some(BackendRequest(getConfig(storage), scans[r].url)) ]
  /\ UNCHANGED << content, configuring, inputs, httpResponse, cache, cacheOps, lastOp, storage, pc, clock, start, intervalMs,
                  timeoutMs, initialReport, finalReport, analysisId, lastStatus, lastAnswer, job,
                  trace, raised, rejected, result >>

\* The backend's answer has arrived and its body has been read: the rest of
\* scanUrl runs. (The awaits of response.text() and response.json() touch
\* nothing the calls share, so they are part of this step.) A TypeError of
\* showScanNotification is thrown after the cache was written and is caught by
\* the catch block like every other error.
BackgroundFetchResponse(r) ==
  /\ entry = "background" /\ scans[r].pc = "await_fetch"
  /\ \E res \in BackendResponses :
       IF res.status = 0
         THEN /\ scans' = [ scans EXCEPT ![r].pc = "returned",
                                         ![r].answer = Some(res),
                                         ![r].sent = @ + 1,
                                         ![r].response = Some(FailureAnswer("Failed to fetch")) ]
              /\ UNCHANGED cache
       ELSE IF ~(res.status >= 200 /\ res.status <= 299)
         THEN /\ scans' = [ scans EXCEPT ![r].pc = "returned",
                                         ![r].answer = Some(res),
                                         ![r].sent = @ + 1,
                                         ![r].response = Some(FailureAnswer(BackendErrorMessage(res))) ]
              /\ UNCHANGED cache
       ELSE LET apiResponse == Get(res.json) IN
            /\ scans' = [ scans EXCEPT ![r].pc = "returned",
                                        ![r].answer = Some(res),
                                        ![r].sent = @ + 1,
                                        ![r].wrote = ShouldCache(apiResponse),
                                        ![r].notified =
                                          ShouldNotify(Get(scans[r].config), apiResponse),
                                        ![r].response =
                                          IF /\ ShouldNotify(Get(scans[r].config), apiResponse)
                                             /\ showScanNotificationThrows(Get(apiResponse.data))
                                            THEN Some(FailureAnswer(NotificationTypeError))
                                            ELSE Some(apiResponse) ]
            /\ IF ShouldCache(apiResponse)
                 THEN cache' = setCachedResult(cache, scans[r].url, Get(apiResponse.data), clock)
                 ELSE UNCHANGED cache
  /\ UNCHANGED << content, configuring, inputs, httpResponse, cacheOps, lastOp, storage, trace, pc, clock, start, intervalMs, timeoutMs,
                  initialReport, finalReport, analysisId, lastStatus, lastAnswer, job, raised,
                  rejected, result >>

\* VirusTotalController.scanUrl once `await this.virusTotalService.scanUrl(...)`
\* has returned a summary (result) or thrown (rejected).
ControllerScanUrl ==
  /\ entry = "controller" /\ pc \in { "returned", "failed" } /\ httpResponse = None
  /\ httpResponse' = Some(IF pc = "returned" THEN controllerReturn(Get(result))
                                             ELSE controllerCatch(Get(rejected)))
  /\ UNCHANGED << content, configuring, inputs, background, pc, clock, start, intervalMs, timeoutMs, initialReport,
                  finalReport, analysisId, lastStatus, lastAnswer, job, trace, raised, rejected,
                  result >>

----------------------------------------------------------------------------
(* Specifications *)

\* One call of scanUrl (service, after construction) or scanAndNotify (standalone).
Init ==
  /\ impl \in { "service", "standalone" }
  /\ apiKey \in ApiKeys
  /\ entry = "scanUrl"
  /\ pc = "new"
  /\ urlStr \in ScanUrls
  /\ t0 \in ScanT0s
  /\ msArg = None
  /\ clock = 0
  /\ start = 0
  /\ intervalMs = 0
  /\ timeoutMs = 0
  /\ initialReport = None
  /\ finalReport = None
  /\ analysisId = None
  /\ lastStatus = None
  /\ lastAnswer = None
  /\ job = None
  /\ trace = << >>
  /\ raised = None
  /\ rejected = None
  /\ result = None
  /\ cache = << >>
  /\ cacheOps = 0
  /\ lastOp = NoOp
  /\ scans = NoScans
  /\ storage = None
  /\ httpResponse = None
  /\ InitContent
  /\ InitConfiguring

Next ==
  \/ Construct
  \/ ScanUrl
  \/ InitialReportResponse
  \/ SubmitResponse
  \/ StatusResponse
  \/ SleepDone
  \/ FinalReportResponse

Spec == Init /\ [][Next]_vars

\* One direct call of the exported waitForAnalysis(analysisId, opts), with
\* VIRUS_TOTAL_API_KEY set or not.
WaitOptionsSet ==
  { NoOptions,
    Options(None, Some(0)),
    Options(None, Some(0 - 1)),
    Options(None, Some(4000)),
    Options(Some(1000), Some(3000)),
    Options(Some(60000), None),
    Options(Some(7000), Some(20000)) }

InitPoller ==
  /\ impl = "standalone"
  /\ apiKey \in ApiKeys
  /\ entry = "waitForAnalysis"
  /\ pc = "new"
  /\ urlStr \in ScanUrls
  /\ t0 \in ScanT0s
  /\ msArg = None
  /\ clock = 0
  /\ start = 0
  /\ \E opts \in WaitOptionsSet :
       /\ intervalMs = ResolveInterval(opts)
       /\ timeoutMs = ResolveTimeout(opts)
  /\ initialReport = None
  /\ finalReport = None
  /\ analysisId = Some("u-1")
  /\ lastStatus = None
  /\ lastAnswer = None
  /\ job = None
  /\ trace = << >>
  /\ raised = None
  /\ rejected = None
  /\ result = None
  /\ cache = << >>
  /\ cacheOps = 0
  /\ lastOp = NoOp
  /\ scans = NoScans
  /\ storage = None
  /\ httpResponse = None
  /\ InitContent
  /\ InitConfiguring

NextPoller ==
  \/ WaitForAnalysis
  \/ StatusResponse
  \/ SleepDone

SpecPoller == InitPoller /\ [][NextPoller]_vars

\* One direct call of b64url(input) on a string of up to MaxUrlLen code points
\* (one to four UTF-8 bytes each; '>' and '?' and U+0FBF bring '+' and '/' into
\* the plain base64), or one scan, whose report requests carry the identifier.
MaxUrlLen == 3

EncodeCodePoints == { 62, 63, 97, 233, 4031, 128512 }

EncodeInputs == UNION { [ 1..n -> EncodeCodePoints ] : n \in 0..MaxUrlLen }

InitEncode ==
  \/ Init
  \/ /\ impl = "standalone"
     /\ apiKey = "vt-key"
     /\ entry = "b64url"
     /\ pc = "new"
     /\ urlStr \in EncodeInputs
     /\ t0 \in ScanT0s
     /\ msArg = None
     /\ clock = 0
     /\ start = 0
     /\ intervalMs = 0
     /\ timeoutMs = 0
     /\ initialReport = None
     /\ finalReport = None
     /\ analysisId = None
     /\ lastStatus = None
     /\ lastAnswer = None
     /\ job = None
     /\ trace = << >>
     /\ raised = None
     /\ rejected = None
     /\ result = None
     /\ cache = << >>
     /\ cacheOps = 0
     /\ lastOp = NoOp
     /\ scans = NoScans
     /\ storage = None
     /\ httpResponse = None
     /\ InitContent
     /\ InitConfiguring

NextEncode ==
  \/ B64url
  \/ Next

SpecEncode == InitEncode /\ [][NextEncode]_vars

\* A call of scanUrl / scanAndNotify or a direct call of waitForAnalysis in
\* which every awaited promise settles: each pending fetch is answered and
\* each pending timer of sleep fires, so a step that can be taken is taken.
InitFair == Init \/ InitPoller

NextFair ==
  \/ Next
  \/ WaitForAnalysis

SpecFair == InitFair /\ [][NextFair]_vars /\ WF_vars(NextFair)

\* One direct call of summarize(urlStr, initialReport, finalReport).
PreDates ==
  { None, Some(0),
    Some(EpochNowSec - 29 * DaySec), Some(EpochNowSec - 30 * DaySec),
    Some(EpochNowSec - 31 * DaySec), Some(EpochNowSec - 40 * DaySec),
    Some(EpochNowSec - 61 * DaySec), Some(EpochNowSec + DaySec) }

PreSubmissionDates == { None, Some(0), Some(EpochNowSec - 3600), Some(EpochNowSec - 61 * DaySec) }

PreReports ==
  { None, Report(None) }
    \cup { Report(Some(Attributes(lad, lsd, Some(1), None, None))) :
             lad \in PreDates, lsd \in PreSubmissionDates }

StatsSet ==
  { None } \cup
  { Some(Stats(Some(70), m, s, None, Some(2))) :
      m \in { None, Some(0), Some(1) }, s \in { None, Some(0), Some(2) } }

VotesSet == { None, Some(Votes(Some(5), Some(3))), Some(Votes(None, Some(0))),
              Some(Votes(Some(1), None)) }

PostReports ==
  { Report(None) }
    \cup { Report(Some(Attributes(lad, Some(EpochNowSec), ts, st, v))) :
             lad \in { None, Some(0), Some(EpochNowSec - 40 * DaySec) },
             ts \in { None, Some(0), Some(3) },
             st \in StatsSet, v \in VotesSet }

InitSummarize ==
  /\ impl \in { "service", "standalone" }
  /\ apiKey = "vt-key"
  /\ entry = "summarize"
  /\ pc = "new"
  /\ urlStr \in ScanUrls
  /\ t0 \in T0s
  /\ msArg = None
  /\ clock = 0
  /\ start = 0
  /\ intervalMs = 0
  /\ timeoutMs = 0
  /\ initialReport \in PreReports
  /\ finalReport \in PostReports
  /\ analysisId = None
  /\ lastStatus = None
  /\ lastAnswer = None
  /\ job = None
  /\ trace = << >>
  /\ raised = None
  /\ rejected = None
  /\ result = None
  /\ cache = << >>
  /\ cacheOps = 0
  /\ lastOp = NoOp
  /\ scans = NoScans
  /\ storage = None
  /\ httpResponse = None
  /\ InitContent
  /\ InitConfiguring

NextSummarize == Summarize

SpecSummarize == InitSummarize /\ [][NextSummarize]_vars

\* One direct call of humanizeDuration(ms): null, negative durations, and
\* durations around every bucket boundary, each with a millisecond part of 0,
\* 1 and 999.
HumanizeSeconds ==
  { 0, 1, 59, 60, 61, 119, 120, 3599, 3600, 3601, 7199, 7200,
    DaySec - 1, DaySec, DaySec + 1, DaySec + 3600, 2 * DaySec - 1,
    30 * DaySec - 1, 30 * DaySec, 30 * DaySec + 1, 31 * DaySec, 40 * DaySec,
    60 * DaySec - 1, 60 * DaySec, 61 * DaySec + 3600, 400 * DaySec }

HumanizeInputs ==
  { None, Some(Ms(0 - 1, 999)), Some(Ms(0 - 1, 0)), Some(Ms(0 - DaySec, 0)) }
    \cup { Some(Ms(sec, rem)) : sec \in HumanizeSeconds, rem \in { 0, 1, 999 } }

InitHumanize ==
  /\ impl \in { "service", "standalone" }
  /\ apiKey = "vt-key"
  /\ entry = "humanizeDuration"
  /\ pc = "new"
  /\ urlStr \in ScanUrls
  /\ t0 \in ScanT0s
  /\ msArg \in HumanizeInputs
  /\ clock = 0
  /\ start = 0
  /\ intervalMs = 0
  /\ timeoutMs = 0
  /\ initialReport = None
  /\ finalReport = None
  /\ analysisId = None
  /\ lastStatus = None
  /\ lastAnswer = None
  /\ job = None
  /\ trace = << >>
  /\ raised = None
  /\ rejected = None
  /\ result = None
  /\ cache = << >>
  /\ cacheOps = 0
  /\ lastOp = NoOp
  /\ scans = NoScans
  /\ storage = None
  /\ httpResponse = None
  /\ InitContent
  /\ InitConfiguring

NextHumanize == HumanizeDuration

SpecHumanize == InitHumanize /\ [][NextHumanize]_vars

\* The cache of one BackgroundService under a sequence of getCachedResult and
\* setCachedResult calls. The service has run for a while: the cache is empty,
\* or holds 999 or 1000 results stored one per second, or 1000 results stored
\* two per second (so that timestamps tie), or 1000 results of which the first
\* key was stored again after all the others, or 1000 results all stored in the
\* millisecond of the first operation.
StoredResult == [ url |-> "prefilled", safe |-> TRUE ]

CacheClock == (MaxCacheEntries + 2) * 1000

InitialCaches ==
  { << >>,
    [ i \in 1..(MaxCacheEntries - 1) |-> Entry(PrefilledUrl(i), StoredResult, i * 1000) ],
    [ i \in 1..MaxCacheEntries |-> Entry(PrefilledUrl(i), StoredResult, i * 1000) ],
    [ i \in 1..MaxCacheEntries |-> Entry(PrefilledUrl(i), StoredResult, (i \div 2) * 1000) ],
    [ i \in 1..MaxCacheEntries |->
        Entry(PrefilledUrl(i), StoredResult,
              IF i = 1 THEN (MaxCacheEntries + 1) * 1000 ELSE i * 1000) ],
    [ i \in 1..MaxCacheEntries |-> Entry(PrefilledUrl(i), StoredResult, CacheClock) ] }

InitCache ==
  /\ impl = "service"
  /\ apiKey = "vt-key"
  /\ entry = "cache"
  /\ pc = "ready"
  /\ urlStr \in { u \in ScanUrls : IsUrl(u) }
  /\ t0 \in ScanT0s
  /\ msArg = None
  /\ clock = CacheClock
  /\ start = 0
  /\ intervalMs = 0
  /\ timeoutMs = 0
  /\ initialReport = None
  /\ finalReport = None
  /\ analysisId = None
  /\ lastStatus = None
  /\ lastAnswer = None
  /\ job = None
  /\ trace = << >>
  /\ raised = None
  /\ rejected = None
  /\ result = None
  /\ cache \in InitialCaches
  /\ cacheOps = 0
  /\ lastOp = NoOp
  /\ scans = NoScans
  /\ storage = None
  /\ httpResponse = None
  /\ InitContent
  /\ InitConfiguring

NextCache ==
  \/ GetCachedResult
  \/ SetCachedResult

SpecCache == InitCache /\ [][NextCache]_vars

\* The scanUrl calls of one BackgroundService, which may overlap. The service
\* has run for a while: its cache is empty, or holds one result stored a second
\* ago, or is full. The user has stored a config of their own or not (the
\* former is combined with the empty cache only).
InitialScanCaches ==
  { << >>,
    << Entry(PrefilledUrl(1), StoredResult, CacheClock - 1000) >>,
    [ i \in 1..MaxCacheEntries |-> Entry(PrefilledUrl(i), StoredResult, i * 1000) ] }

InitBackground ==
  /\ impl = "service"
  /\ apiKey = "vt-key"
  /\ entry = "background"
  /\ pc = "ready"
  /\ urlStr \in { u \in ScanUrls : IsUrl(u) }
  /\ t0 \in ScanT0s
  /\ msArg = None
  /\ clock = CacheClock
  /\ start = 0
  /\ intervalMs = 0
  /\ timeoutMs = 0
  /\ initialReport = None
  /\ finalReport = None
  /\ analysisId = None
  /\ lastStatus = None
  /\ lastAnswer = None
  /\ job = None
  /\ trace = << >>
  /\ raised = None
  /\ rejected = None
  /\ result = None
  /\ cache \in InitialScanCaches
  /\ cacheOps = 0
  /\ lastOp = NoOp
  /\ scans = NoScans
  /\ storage \in StoredConfigs
  /\ httpResponse = None
  /\ InitContent
  /\ InitConfiguring
  /\ IsSome(storage) => cache = << >>

NextBackground ==
  \/ \E r \in Requests : BackgroundScanUrl(r)
  \/ \E r \in Requests : BackgroundConfigLoaded(r)
  \/ \E r \in Requests : BackgroundFetchResponse(r)

SpecBackground == InitBackground /\ [][NextBackground]_vars

\* One POST api/virustotal/scan whose call of the service's scanUrl has ended.
\* The call returned a summary, or it failed: on an upstream answer to one of
\* its requests, on the poller's timeout, on an unexpected job status, on a
\* missing job id or on a missing post-scan report.
UpstreamErrorStatuses == { 400, 401, 403, 429, 500, 503 }

StatusTextOf(status) ==
  CASE status = 400 -> "Bad Request"
    [] status = 401 -> "Unauthorized"
    [] status = 403 -> "Forbidden"
    [] status = 429 -> "Too Many Requests"
    [] status = 500 -> "Internal Server Error"
    [] status = 503 -> "Service Unavailable"

\* Body texts of upstream error answers.
UpstreamErrorTexts ==
  { "", "quota exceeded", "Timed out while contacting the origin", "origin said HTTP 403" }

UpstreamErrors ==
  { Response(0, "", "", None) } \cup
  { Response(st, StatusTextOf(st), text, None) : st \in UpstreamErrorStatuses,
                                                 text \in UpstreamErrorTexts }

Awaits == { "await_initial_report", "await_submit", "await_status", "await_final_report" }

\* An outcome of the service's scanUrl: the summary it returned, or the error
\* it threw, the upstream answer handled last and the job status read last.
Outcome(summary, error, answer, status) ==
  [ result |-> summary, raised |-> error, lastAnswer |-> answer, lastStatus |-> status ]

ServiceOutcomes ==
  { Outcome(Some(summarize(ScanUrlWellFormed, None, final, Ms(EpochNowSec, 1))), None,
            Answer("await_final_report", 200), Some("completed")) :
      final \in ScanReports }
  \cup { Outcome(None, fetchJson(res).error, Answer(of, res.status), None) :
           res \in UpstreamErrors, of \in Awaits }
  \cup { Outcome(None, Some(TimeoutError), None, None) }
  \cup { Outcome(None, Some(UnexpectedStatusError(st)), Answer("await_status", 200), Some(st)) :
           st \in { "failed", "aborted" } }
  \cup { Outcome(None, Some(NoAnalysisIdError), Answer("await_submit", st), None) :
           st \in { 200, 404 } }
  \cup { Outcome(None, Some(FinalReportMissingError), Answer("await_final_report", 404),
                 Some("completed")) }

InitController ==
  /\ impl = "service"
  /\ apiKey = "vt-key"
  /\ entry = "controller"
  /\ urlStr = ScanUrlWellFormed
  /\ t0 \in ScanT0s
  /\ msArg = None
  /\ clock = 0
  /\ start = 0
  /\ intervalMs = DefaultIntervalMs
  /\ timeoutMs = DefaultTimeoutMs
  /\ initialReport = None
  /\ finalReport = None
  /\ analysisId = None
  /\ job = None
  /\ trace = << >>
  /\ \E outcome \in ServiceOutcomes :
       /\ result = outcome.result
       /\ raised = outcome.raised
       /\ rejected = (IF IsSome(outcome.raised) THEN Some(scanUrlCatch(Get(outcome.raised)))
                                                ELSE None)
       /\ lastAnswer = outcome.lastAnswer
       /\ lastStatus = outcome.lastStatus
       /\ pc = (IF IsSome(outcome.result) THEN "returned" ELSE "failed")
  /\ cache = << >>
  /\ cacheOps = 0
  /\ lastOp = NoOp
  /\ scans = NoScans
  /\ storage = None
  /\ httpResponse = None
  /\ InitContent
  /\ InitConfiguring

NextController == ControllerScanUrl

SpecController == InitController /\ [][NextController]_vars

----------------------------------------------------------------------------
(* Content script of the extension (VirusTotalScanner) *)

\* How many times scanUrl is called, how many times showScanOption is called
\* and how many links page mutations add.
MaxMessages == 2
MaxShown == 2
MaxLinks == 2

\* The delay of the timer showScanOption starts.
AutoHideMs == 5000

\* The time between one event of the page and the next.
UserDelays == { 0, 2000 }

\* The URLs the user selects, clicks or drops: with a protocol or without,
\* with one of the words normalizeUrl looks for or without.
\* Each is its protocol, the rest of it, and the words of the rest.
PageUrls ==
  { [ protocol |-> "https://", rest |-> "a.example/", words |-> { "a", "example" } ],
    [ protocol |-> "", rest |-> "a.example/", words |-> { "a", "example" } ],
    [ protocol |-> "", rest |-> "bank.example/login", words |-> { "bank", "example", "login" } ] }

\* url.includes('secure') || url.includes('login') || url.includes('bank')
LooksSecure(url) == url.words \cap { "secure", "login", "bank" } # {}

normalizeUrl(url) ==
  IF url.protocol \in { "http://", "https://" }
  THEN url
  ELSE IF LooksSecure(url)
       THEN [ url EXCEPT !.protocol = "https://" ]
       ELSE [ url EXCEPT !.protocol = "http://" ]

\* The ChromeMessage scanUrl sends to the background.
ScanUrlMessage(url) == [ action |-> "scanUrl", url |-> url ]

\* `ms` milliseconds pass before the next event; no pending timer of
\* showScanOption is overdue when the event is handled.
Elapse(ms) ==
  /\ clock' = clock + ms
  /\ \A timer \in hideTimers : clock + ms <= timer.due

\* scanUrl(url), as the click on a scan button, the drop of a URL and the
\* 'scanSelectedUrl' message of the context menu call it. sendMessage takes a
\* callback and returns at once, so `finally` has reset isScanning and has
\* removed the floating button when the handler ends; sendMessage throws when
\* the extension context is gone, and no message is sent then.
ScannerScanUrl ==
  /\ entry = "content"
  /\ Len(trace) < MaxMessages
  /\ \E url \in PageUrls, thrown \in BOOLEAN :
       IF isScanning
       THEN UNCHANGED << isScanning, outstanding, trace, floating >>
       ELSE /\ isScanning' = FALSE
            /\ trace' = Append(trace, [ kind |-> "sendMessage",
                                       message |-> ScanUrlMessage(normalizeUrl(url)),
                                       thrown |-> thrown ])
            /\ outstanding' = IF thrown THEN outstanding
                              ELSE Append(outstanding, ScanUrlMessage(normalizeUrl(url)))
            /\ floating' = None
  /\ UNCHANGED << configuring, inputs, background, httpResponse, pc, clock, start, intervalMs,
                  timeoutMs, initialReport, finalReport, analysisId, lastStatus, lastAnswer,
                  job, raised, rejected, result, buttonsVisible, buttons, anchors,
                  updateTimers, hideTimers, shown >>

\* The callback of sendMessage runs with the response of the background to one
\* of the outstanding messages; it shows a notification.
ScannerResponse ==
  /\ entry = "content"
  /\ \E i \in DOMAIN outstanding :
       outstanding' = SubSeq(outstanding, 1, i - 1) \o SubSeq(outstanding, i + 1, Len(outstanding))
  /\ UNCHANGED << configuring, inputs, background, httpResponse, pc, clock, start, intervalMs,
                  timeoutMs, initialReport, finalReport, analysisId, lastStatus, lastAnswer,
                  job, trace, raised, rejected, result, isScanning, buttonsVisible, buttons,
                  anchors, updateTimers, floating, hideTimers, shown >>

\* toggleScanButtons, called by the keydown handler for the key 'q'.
ToggleScanButtons ==
  /\ entry = "content"
  /\ buttonsVisible' = ~buttonsVisible
  /\ buttons' = [ i \in DOMAIN buttons |-> IF buttonsVisible' THEN "block" ELSE "none" ]
  /\ UNCHANGED << configuring, inputs, background, httpResponse, pc, clock, start, intervalMs,
                  timeoutMs, initialReport, finalReport, analysisId, lastStatus, lastAnswer,
                  job, trace, raised, rejected, result, isScanning, outstanding, anchors,
                  updateTimers, floating, hideTimers, shown >>

\* The page adds a link: the MutationObserver of observePageChanges starts the
\* timer that will call addPersistentScanButtons.
PageAddsLink ==
  /\ entry = "content"
  /\ Len(buttons) + anchors < InitialLinks + MaxLinks
  /\ anchors' = anchors + 1
  /\ updateTimers' = updateTimers + 1
  /\ UNCHANGED << configuring, inputs, background, httpResponse, pc, clock, start, intervalMs,
                  timeoutMs, initialReport, finalReport, analysisId, lastStatus, lastAnswer,
                  job, trace, raised, rejected, result, isScanning, outstanding,
                  buttonsVisible, buttons, floating, hideTimers, shown >>

\* A timer of observePageChanges fires: addPersistentScanButtons gives every
\* link without dataset.vtScanned a button made by createPersistentScanButton,
\* whose cssText sets no display.
AddPersistentScanButtons ==
  /\ entry = "content"
  /\ updateTimers > 0
  /\ updateTimers' = updateTimers - 1
  /\ buttons' = buttons \o [ i \in 1..anchors |-> "" ]
  /\ anchors' = 0
  /\ UNCHANGED << configuring, inputs, background, httpResponse, pc, clock, start, intervalMs,
                  timeoutMs, initialReport, finalReport, analysisId, lastStatus, lastAnswer,
                  job, trace, raised, rejected, result, isScanning, outstanding,
                  buttonsVisible, floating, hideTimers, shown >>

\* handleTextSelection after a mouseup or keyup. With a URL in the selection
\* it calls showScanOption: hideScanOption, a new element with id
\* 'vt-scan-button', and a timer that calls hideScanOption after 5 s. Without
\* one it calls hideScanOption.
HandleTextSelection ==
  /\ entry = "content"
  /\ shown < MaxShown
  /\ \E ms \in UserDelays, hasUrl \in BOOLEAN :
       /\ Elapse(ms)
       /\ IF hasUrl
          THEN /\ shown' = shown + 1
               /\ floating' = Some([ call |-> shown', at |-> clock' ])
               /\ hideTimers' = hideTimers \cup { [ call |-> shown', due |-> clock' + AutoHideMs ] }
          ELSE /\ IsSome(floating)
               /\ floating' = None
               /\ UNCHANGED << hideTimers, shown >>
  /\ UNCHANGED << configuring, inputs, background, httpResponse, pc, start, intervalMs,
                  timeoutMs, initialReport, finalReport, analysisId, lastStatus, lastAnswer,
                  job, trace, raised, rejected, result, isScanning, outstanding,
                  buttonsVisible, buttons, anchors, updateTimers >>

\* The timer of showScanOption that is due next fires: hideScanOption removes
\* the element with id 'vt-scan-button', whichever call created it.
HideTimerFires ==
  /\ entry = "content"
  /\ \E timer \in hideTimers :
       /\ \A other \in hideTimers : timer.due <= other.due
       /\ clock' = timer.due
       /\ hideTimers' = hideTimers \ { timer }
       /\ floating' = None
  /\ UNCHANGED << configuring, inputs, background, httpResponse, pc, start, intervalMs,
                  timeoutMs, initialReport, finalReport, analysisId, lastStatus, lastAnswer,
                  job, trace, raised, rejected, result, isScanning, outstanding,
                  buttonsVisible, buttons, anchors, updateTimers, shown >>

\* The content script in a page it has just been loaded into.
InitScanner ==
  /\ impl = "service"
  /\ apiKey = "vt-key"
  /\ entry = "content"
  /\ pc = "ready"
  /\ urlStr = ScanUrlWellFormed
  /\ t0 \in ScanT0s
  /\ msArg = None
  /\ clock = 0
  /\ start = 0
  /\ intervalMs = 0
  /\ timeoutMs = 0
  /\ initialReport = None
  /\ finalReport = None
  /\ analysisId = None
  /\ lastStatus = None
  /\ lastAnswer = None
  /\ job = None
  /\ trace = << >>
  /\ raised = None
  /\ rejected = None
  /\ result = None
  /\ cache = << >>
  /\ cacheOps = 0
  /\ lastOp = NoOp
  /\ scans = NoScans
  /\ storage = None
  /\ httpResponse = None
  /\ InitContent
  /\ InitConfiguring

NextScanner ==
  \/ ScannerScanUrl
  \/ ScannerResponse
  \/ ToggleScanButtons
  \/ PageAddsLink
  \/ AddPersistentScanButtons
  \/ HandleTextSelection
  \/ HideTimerFires

SpecScanner == InitScanner /\ [][NextScanner]_vars

----------------------------------------------------------------------------
(* Configuration of the extension's BackgroundService *)

\* How many 'updateConfig' messages arrive.
MaxUpdates == 2

\* The Partial<ExtensionConfig> an 'updateConfig' message carries.
NewConfigs ==
  { [ autoScan |-> FALSE ],
    [ showNotifications |-> FALSE ],
    [ apiEndpoint |-> "https://vt.example/api/virustotal" ] }

\* { ...currentConfig, ...newConfig }
MergeConfig(currentConfig, newConfig) ==
  [ key \in DOMAIN currentConfig \cup DOMAIN newConfig |->
      IF key \in DOMAIN newConfig THEN newConfig[key] ELSE currentConfig[key] ]

\* A call of updateConfig: its argument, the await it is suspended at
\* ("get", "set") or how it ended ("returned", "failed"), its updatedConfig
\* once it has one, and what handleMessage passed to sendResponse.
Update(newConfig) ==
  [ newConfig |-> newConfig, pc |-> "get", updatedConfig |-> None, response |-> None ]

\* handleMessage with an 'updateConfig' message that has data: updateConfig
\* calls getConfig, which awaits chrome.storage.sync.get.
HandleUpdateConfig ==
  /\ entry = "config"
  /\ Len(updates) < MaxUpdates
  /\ \E newConfig \in NewConfigs : updates' = Append(updates, Update(newConfig))
  /\ UNCHANGED << content, inputs, background, httpResponse, pc, clock, start, intervalMs,
                  timeoutMs, initialReport, finalReport, analysisId, lastStatus, lastAnswer,
                  job, trace, raised, rejected, result, initConfig >>

\* chrome.storage.sync.get settles for call c: getConfig returns the stored
\* config, or defaultConfig when there is none or get rejected; updateConfig
\* merges its argument into it and awaits chrome.storage.sync.set.
UpdateConfigLoaded(c) ==
  /\ entry = "config"
  /\ c \in DOMAIN updates /\ updates[c].pc = "get"
  /\ \E ok \in BOOLEAN :
       updates' = [ updates EXCEPT
                      ![c].pc = "set",
                      ![c].updatedConfig =
                        Some(MergeConfig(getConfig(IF ok THEN storage ELSE None),
                                         updates[c].newConfig)) ]
  /\ UNCHANGED << content, inputs, background, httpResponse, pc, clock, start, intervalMs,
                  timeoutMs, initialReport, finalReport, analysisId, lastStatus, lastAnswer,
                  job, trace, raised, rejected, result, initConfig >>

\* chrome.storage.sync.set settles for call c: the config is stored and
\* updateConfig returns it, which handleMessage passes to sendResponse; or set
\* rejected and updateConfig rethrows, which handleMessage does not catch.
UpdateConfigStored(c) ==
  /\ entry = "config"
  /\ c \in DOMAIN updates /\ updates[c].pc = "set"
  /\ \E ok \in BOOLEAN :
       IF ok
       THEN /\ storage' = updates[c].updatedConfig
            /\ updates' = [ updates EXCEPT ![c].pc = "returned",
                                           ![c].response = updates[c].updatedConfig ]
       ELSE /\ updates' = [ updates EXCEPT ![c].pc = "failed" ]
            /\ UNCHANGED storage
  /\ UNCHANGED << content, inputs, httpResponse, cache, cacheOps, lastOp, scans, pc, clock,
                  start, intervalMs, timeoutMs, initialReport, finalReport, analysisId,
                  lastStatus, lastAnswer, job, trace, raised, rejected, result, initConfig >>

\* chrome.storage.sync.get settles for initializeConfig: with no stored config
\* it awaits chrome.storage.sync.set; with one, or when get rejected, it ends.
InitializeConfigLoaded ==
  /\ entry = "config"
  /\ initConfig = "get"
  /\ \E ok \in BOOLEAN :
       initConfig' = IF ok /\ ~IsSome(storage) THEN "set" ELSE "done"
  /\ UNCHANGED << content, inputs, background, httpResponse, pc, clock, start, intervalMs,
                  timeoutMs, initialReport, finalReport, analysisId, lastStatus, lastAnswer,
                  job, trace, raised, rejected, result, updates >>

\* chrome.storage.sync.set settles for initializeConfig: defaultConfig is
\* stored, or set rejected and the error is logged.
InitializeConfigStored ==
  /\ entry = "config"
  /\ initConfig = "set"
  /\ initConfig' = "done"
  /\ \E ok \in BOOLEAN :
       storage' = IF ok THEN Some(defaultConfig) ELSE storage
  /\ UNCHANGED << content, inputs, httpResponse, cache, cacheOps, lastOp, scans, pc, clock,
                  start, intervalMs, timeoutMs, initialReport, finalReport, analysisId,
                  lastStatus, lastAnswer, job, trace, raised, rejected, result, updates >>

\* The BackgroundService after its constructor, with a config in
\* chrome.storage.sync or without.
InitConfig ==
  /\ impl = "service"
  /\ apiKey = "vt-key"
  /\ entry = "config"
  /\ pc = "ready"
  /\ urlStr = ScanUrlWellFormed
  /\ t0 \in ScanT0s
  /\ msArg = None
  /\ clock = 0
  /\ start = 0
  /\ intervalMs = 0
  /\ timeoutMs = 0
  /\ initialReport = None
  /\ finalReport = None
  /\ analysisId = None
  /\ lastStatus = None
  /\ lastAnswer = None
  /\ job = None
  /\ trace = << >>
  /\ raised = None
  /\ rejected = None
  /\ result = None
  /\ cache = << >>
  /\ cacheOps = 0
  /\ lastOp = NoOp
  /\ scans = NoScans
  /\ storage \in StoredConfigs
  /\ httpResponse = None
  /\ InitContent
  /\ InitConfiguring

NextConfig ==
  \/ HandleUpdateConfig
  \/ \E c \in 1..MaxUpdates : UpdateConfigLoaded(c)
  \/ \E c \in 1..MaxUpdates : UpdateConfigStored(c)
  \/ InitializeConfigLoaded
  \/ InitializeConfigStored

SpecConfig == InitConfig /\ [][NextConfig]_vars

----------------------------------------------------------------------------
(* Properties *)

\* Helpers of the properties.
StatusGets == Count(trace, IsStatusGet)
Sleeps == Count(trace, IsSleep)
ReportGets == Count(trace, IsReportGet)
Submits == Count(trace, IsSubmit)
Summarizes == Count(trace, IsSummarize)

LastEvent == trace[Len(trace)]

\* A counter of the post-scan report's last_analysis_stats, 0 when the report
\* has no attributes, no stats or not that counter.
EngineCount(report, field) ==
  LET a == AttributesOf(report) IN
  IF IsSome(a) /\ IsSome(Get(a).last_analysis_stats)
       /\ IsSome(Get(Get(a).last_analysis_stats)[field])
    THEN Get(Get(Get(a).last_analysis_stats)[field])
    ELSE 0

\* The report with its total_votes replaced by v.
WithVotes(report, v) ==
  LET a == AttributesOf(report) IN
  Report(Some([ (IF IsSome(a) THEN Get(a) ELSE EmptyAttributes) EXCEPT !.total_votes = v ]))

\* C1: the service's summarize returns safe == NOT (malicious + suspicious > 0)
\* of the post-scan stats, a missing counter counting as 0, and replacing only
\* total_votes by any other value leaves safe as it is.
C1_SafeIsEngineVerdict ==
  (entry = "summarize" /\ pc = "returned" /\ impl = "service") =>
    /\ Get(result).safe =
         ~(EngineCount(finalReport, "malicious") + EngineCount(finalReport, "suspicious") > 0)
    /\ \A v \in VotesSet :
         summarize(urlStr, initialReport, WithVotes(finalReport, v), DateNow(clock)).safe
           = Get(result).safe

\* C1 witness: a clean engine result with malicious community votes is safe.
C1_Witness ==
  /\ entry = "summarize" /\ pc = "returned" /\ impl = "service"
  /\ Get(result).safe
  /\ Get(result).total_votes.malicious = 3
  /\ EngineCount(finalReport, "malicious") + EngineCount(finalReport, "suspicious") = 0

\* C2: the requests of a scan come in the order pre-scan report GET, submit
\* POST, status GETs (one sleep between two of them), post-scan report GET,
\* summarize; a request is outstanding only while nothing has failed, and the
\* post-scan GET is issued only once the poller saw 'completed'.
C2_CallOrder ==
  LET n == Len(trace)
      post == { i \in 2..n : IsReportGet(trace[i]) }
  IN
  /\ n >= 1 => IsReportGet(trace[1])
  /\ n >= 2 => IsSubmit(trace[2])
  /\ n >= 3 => IsStatusGet(trace[3])
  /\ \A i \in 4..n :
       \/ IsStatusGet(trace[i]) /\ IsSleep(trace[i - 1])
       \/ IsSleep(trace[i]) /\ IsStatusGet(trace[i - 1])
       \/ IsReportGet(trace[i]) /\ IsStatusGet(trace[i - 1])
       \/ IsSummarize(trace[i]) /\ IsReportGet(trace[i - 1]) /\ i = n
  /\ Cardinality(post) <= 1
  /\ \A i \in post : i >= n - 1
  /\ post # {} => lastStatus = Some("completed") /\ IsSome(job)
  /\ pc \in { "await_initial_report", "await_submit", "await_status", "sleeping",
              "await_final_report" } => ~IsSome(raised)
  /\ IsSome(result) => Summarizes = 1 /\ ReportGets = 2 /\ Submits = 1 /\ StatusGets >= 1

\* C2 witness: a scan that returned a summary after polling more than once.
C2_Witness ==
  /\ pc = "returned" /\ IsSome(result)
  /\ StatusGets >= 2
  /\ ReportGets = 2

\* C3: once a step of the scan has failed, nothing more happens: the operation
\* has ended, no summary exists, the caller receives the very error that was
\* thrown, and no request was issued twice.
C3_FailureAborts ==
  IsSome(raised) =>
    /\ pc \in { "failed", "construct_failed" }
    /\ rejected = raised
    /\ ~IsSome(result)
    /\ Summarizes = 0
    /\ ReportGets <= 2 /\ Submits <= 1
    /\ (ReportGets = 2 => IsSome(job))
    /\ ~ENABLED Next

\* C3 witness: the service's scan failed on an upstream HTTP error of a status
\* fetch, after it had slept once.
C3_Witness ==
  /\ impl = "service" /\ pc = "failed"
  /\ raised = Some(Error("HTTP 429: quota exceeded"))
  /\ rejected = raised
  /\ Sleeps = 1 /\ IsStatusGet(LastEvent)

\* C4: once a status answer said 'completed' the poller has returned that job
\* and neither sleeps nor fetches the status again; when it was the first
\* answer, there was no sleep at all.
C4_CompletedReturnsAtOnce ==
  lastStatus = Some("completed") =>
    /\ pc = "returned"
    /\ job = Some([ status |-> Some("completed") ])
    /\ ~IsSome(raised)
    /\ IsStatusGet(LastEvent)
    /\ StatusGets = Sleeps + 1

\* C4 witness: 'completed' on the first check, no sleep.
C4_Witness ==
  /\ lastStatus = Some("completed") /\ pc = "returned"
  /\ StatusGets = 1 /\ Sleeps = 0

\* C5 as stated: any status other than queued, running and completed fails
\* the poller at once.
C5_AnyOtherStatusFails ==
  (IsSome(lastStatus) /\ Get(lastStatus) \notin { "queued", "running", "completed" }) =>
    /\ pc = "failed"
    /\ raised = Some(UnexpectedStatusError(Get(lastStatus)))

\* C5 amended: any non-empty status other than queued, running and completed
\* fails the poller at once with the error naming that status: no sleep and no
\* further fetch follows the answer, and the deadline is not waited for.
C5_NonEmptyOtherStatusFails ==
  (IsSome(lastStatus) /\ Get(lastStatus) \notin { "", "queued", "running", "completed" }) =>
    /\ pc = "failed"
    /\ raised = Some(UnexpectedStatusError(Get(lastStatus)))
    /\ IsStatusGet(LastEvent)
    /\ StatusGets = Sleeps + 1
    /\ ~ENABLED NextPoller

\* C5 witness: 'failed' on the first check, long before the deadline.
C5_Witness ==
  /\ lastStatus = Some("failed") /\ pc = "failed"
  /\ raised = Some(Error("Unexpected analysis status: failed"))
  /\ clock - start < timeoutMs
  /\ Sleeps = 0

\* C6: the poller throws the timeout error exactly at a loop head where the
\* elapsed time has reached the timeout (a status fetch is outstanding only
\* when it had not), and it returns a job only when a status answer said
\* 'completed'.
C6_TimeoutOrCompleted ==
  /\ raised = Some(TimeoutError) => clock - start >= timeoutMs /\ ~IsSome(job)
  /\ pc = "await_status" => clock - start < timeoutMs
  /\ (pc = "returned" \/ IsSome(job)) =>
       lastStatus = Some("completed") /\ job = Some([ status |-> Some("completed") ])

\* C6 witness: with the default options, sixty non-terminal answers and then
\* the timeout.
C6_Witness ==
  /\ raised = Some(TimeoutError) /\ pc = "failed"
  /\ timeoutMs = DefaultTimeoutMs /\ intervalMs = DefaultIntervalMs
  /\ Sleeps = 60 /\ StatusGets = 60
  /\ clock - start = timeoutMs

\* C7 as stated (for a timeout that is not negative): the poller ends within
\* timeoutMs of its start.
C7_EndsWithinTimeout ==
  (entry = "waitForAnalysis" /\ pc \in { "returned", "failed" } /\ timeoutMs >= 0) =>
    clock - start <= timeoutMs

\* C7 amended: the timeout is checked only before a status fetch, so the poller
\* ends less than one status fetch plus one sleep after the timeout: without
\* any fetch it ends at once, otherwise within timeoutMs + the longest fetch +
\* intervalMs of its start.
C7_EndsOneIterationAfterTimeout ==
  (entry = "waitForAnalysis" /\ pc \in { "returned", "failed" }) =>
    IF StatusGets = 0
      THEN clock = start
      ELSE clock - start < timeoutMs + MaxFetchMs + intervalMs

\* C7 witness: the poller ended later than timeoutMs after its start.
C7_Witness ==
  /\ entry = "waitForAnalysis" /\ pc = "failed"
  /\ raised = Some(TimeoutError)
  /\ timeoutMs = DefaultTimeoutMs
  /\ clock - start > timeoutMs

\* C8 as stated: a 404 answer to a status fetch fails the poller (and the
\* scan); it is never followed by a sleep.
C8_StatusNotFoundFails ==
  lastAnswer = Answer("await_status", 404) => pc = "failed" /\ IsSome(raised)

\* C9: a null post-scan report after a successful poll fails the scan with the
\* missing-report error: summarize has not run, there is no summary, and the
\* report was requested once before and once after the poll.
C9_MissingFinalReportFails ==
  /\ lastAnswer = Answer("await_final_report", 404) =>
       /\ pc = "failed"
       /\ raised = Some(FinalReportMissingError)
       /\ rejected = raised
       /\ ~IsSome(result)
       /\ Summarizes = 0
       /\ ReportGets = 2
       /\ ~ENABLED Next
  /\ (Summarizes > 0 \/ IsSome(result)) => IsSome(finalReport)

\* C9 witness: the scan failed on a 404 for the post-scan report.
C9_Witness ==
  /\ IsSome(job) /\ lastAnswer = Answer("await_final_report", 404) /\ pc = "failed"
  /\ raised = Some(Error("Final report not found after analysis."))

\* C10: a 404 for the pre-scan report does not fail the scan: the submit is
\* issued next, and a summary built without a pre-scan report says
\* wasStale == false and stale_age_human == "fresh".
C10_NullPreScanIsValid ==
  /\ lastAnswer = Answer("await_initial_report", 404) =>
       /\ pc = "await_submit"
       /\ ~IsSome(raised)
       /\ initialReport = None
       /\ IsSubmit(LastEvent)
  /\ (entry = "scanUrl" /\ pc = "returned" /\ initialReport = None) =>
       /\ IsSome(result)
       /\ ~Get(result).wasStale
       /\ Get(result).stale_age_human = "fresh"

\* C10 witness: a scan without a pre-scan report returned its summary.
C10_Witness ==
  /\ entry = "scanUrl" /\ pc = "returned" /\ initialReport = None
  /\ Get(result).stale_age_human = "fresh"
  /\ StatusGets >= 2

\* C11: a submit answer without a job identifier (a 2xx body whose id is
\* missing or empty, or a 404) fails submitUrl with the missing-id error: the
\* scan ends with that very error, no job-status request was ever issued, the
\* submit was issued once, and the poller only ever runs with a non-empty id.
C11_MissingIdFailsScan ==
  /\ (lastAnswer \in { Answer("await_submit", 200), Answer("await_submit", 404) }
        /\ ~TruthyStr(analysisId)) =>
       /\ pc = "failed"
       /\ raised = Some(NoAnalysisIdError)
  /\ raised = Some(NoAnalysisIdError) =>
       /\ pc = "failed"
       /\ rejected = raised
       /\ ~IsSome(analysisId)
       /\ StatusGets = 0 /\ Sleeps = 0
       /\ Submits = 1 /\ IsSubmit(LastEvent)
       /\ ~IsSome(result)
       /\ ~ENABLED Next
  /\ (entry = "scanUrl" /\ StatusGets > 0) => TruthyStr(analysisId)

\* C11 witness: the service's scan failed on a 200 submit answer without an id.
C11_Witness ==
  /\ impl = "service" /\ pc = "failed"
  /\ lastAnswer = Answer("await_submit", 200)
  /\ raised = Some(Error("No analysis ID returned from VirusTotal."))
  /\ StatusGets = 0 /\ Submits = 1

\* HTTP statuses and answers fetchJson is applied to in C12.
HttpStatuses == { 200, 201, 204, 299, 300, 302, 304, 400, 401, 403, 404, 405, 429, 500, 503 }

HttpAnswers ==
  { Response(st, "Status Text", t, Some([ id |-> Some("u-1") ])) :
      st \in HttpStatuses, t \in { "", "body text" } }

\* The message of the error fetchJson throws for an HTTP answer.
HttpErrorOf(res) ==
  Error("HTTP " \o ToString(res.status) \o ": "
          \o (IF res.text # "" THEN res.text ELSE res.statusText))

\* C12: fetchJson maps an HTTP answer to exactly one of three outcomes: a 2xx
\* status returns the parsed body, status 404 returns null, and every other
\* status throws an error whose message carries that status. In a scan, an
\* answer with a non-2xx status other than 404 to any of the three kinds of
\* request fails the operation with that HTTP error, and an HTTP error is
\* never raised for a 2xx or a 404 answer.
C12_HttpOutcomeMapping ==
  /\ \A res \in HttpAnswers :
       LET out == fetchJson(res) IN
       IF res.status >= 200 /\ res.status <= 299 THEN out = Returned(res.json)
       ELSE IF res.status = 404 THEN out = Returned(None)
       ELSE out = Threw(HttpErrorOf(res))
  /\ IsSome(lastAnswer) =>
       LET st == Get(lastAnswer).status
           of == Get(lastAnswer).of
       IN
       IF st = 0 THEN pc = "failed" /\ raised = Some(Error("fetch failed"))
       ELSE IF st >= 200 /\ st <= 299
         THEN raised \notin { Some(HttpErrorOf(res)) : res \in ErrorResponses \cup {NotFoundResponse} }
       ELSE IF st = 404
         THEN CASE of = "await_initial_report" ->
                     pc = "await_submit" /\ initialReport = None /\ raised = None
                [] of = "await_submit" ->
                     pc = "failed" /\ raised = Some(NoAnalysisIdError)
                [] of = "await_status" ->
                     pc = "sleeping" /\ lastStatus = None /\ job = None /\ raised = None
                [] of = "await_final_report" ->
                     pc = "failed" /\ finalReport = None
                       /\ raised = Some(FinalReportMissingError)
       ELSE /\ pc = "failed"
            /\ \E res \in ErrorResponses : res.status = st /\ raised = Some(HttpErrorOf(res))
            /\ rejected = raised
            /\ ~IsSome(result)

\* C12 witness: a 429 answer to the submit failed the scan with the error
\* that carries the status and the body text.
C12_Witness ==
  /\ lastAnswer = Answer("await_submit", 429)
  /\ pc = "failed"
  /\ raised = Some(Error("HTTP 429: quota exceeded"))
  /\ StatusGets = 0

\* C13 as stated: for a malformed URL the scan issues no upstream request at
\* all and ends in a failure.
C13_MalformedUrlNoUpstreamCall ==
  ~IsUrl(urlStr) =>
    /\ trace = << >>
    /\ pc \in { "new", "ready", "construct_failed", "failed" }

\* The pre-scan last_analysis_date of a direct summarize call (None when the
\* report or the field is absent), and the whole seconds from it to now.
PreAnalysisDate ==
  IF IsSome(AttributesOf(initialReport))
    THEN Get(AttributesOf(initialReport)).last_analysis_date ELSE None

PreAgeSec == DateNow(clock).s - Get(PreAnalysisDate)

\* now - date * 1000 > 30 days, in seconds and the millisecond part of now.
OlderThanThirtyDays ==
  \/ PreAgeSec > 30 * DaySec
  \/ PreAgeSec = 30 * DaySec /\ DateNow(clock).r > 0

\* Post-scan reports that differ in their last_analysis_date only.
PostAnalysisDateVariants ==
  { Report(None) } \cup
  { Report(Some(Attributes(lad, None, None, None, None))) :
      lad \in { None, Some(0), Some(EpochNowSec), Some(EpochNowSec - 40 * DaySec) } }

\* C14 as stated: for every present pre-scan last_analysis_date, wasStale is
\* (now - date > 30 days).
C14_StaleForEveryPresentDate ==
  (entry = "summarize" /\ pc = "returned" /\ IsSome(PreAnalysisDate)) =>
    Get(result).wasStale = OlderThanThirtyDays

\* C14 amended: for every present pre-scan last_analysis_date other than 0,
\* wasStale is (now - date > 30 days): true for 31 days, false for 29 days and
\* for exactly 30 days; when the pre-scan report or the date is absent, or the
\* date is 0, wasStale is false and stale_age_human is "fresh"; and the
\* post-scan last_analysis_date does not change wasStale.
C14_StaleFromPreScanOnly ==
  (entry = "summarize" /\ pc = "returned") =>
    /\ TruthyNum(PreAnalysisDate) =>
          /\ Get(result).wasStale = OlderThanThirtyDays
          /\ PreAgeSec = 31 * DaySec => Get(result).wasStale
          /\ PreAgeSec = 29 * DaySec => ~Get(result).wasStale
    /\ ~TruthyNum(PreAnalysisDate) =>
          /\ ~Get(result).wasStale
          /\ Get(result).stale_age_human = "fresh"
    /\ \A final \in PostAnalysisDateVariants :
          LET other == IF impl = "service"
                         THEN summarize(urlStr, initialReport, final, DateNow(clock))
                         ELSE summarizeStandalone(urlStr, initialReport, final, DateNow(clock))
          IN  /\ other.wasStale = Get(result).wasStale
              /\ other.stale_age_human = Get(result).stale_age_human

\* C14 witness: a pre-scan date of exactly 30 days and one millisecond ago is
\* stale, whatever the fresh post-scan date.
C14_Witness ==
  /\ entry = "summarize" /\ pc = "returned"
  /\ PreAnalysisDate = Some(EpochNowSec - 30 * DaySec)
  /\ DateNow(clock).r = 1
  /\ Get(result).wasStale
  /\ IsSome(Get(result).last_analysis_date)

\* C15: whenever summarize returns wasStale == true, stale_age_human is the
\* months/days bucket of the pre-scan age, "<n> month(s) <days mod 30>d" with
\* n >= 1 ("month" for n = 1, "months" above), hence none of "unknown",
\* "fresh" or a smaller bucket; and a pre-scan date 40 days old with a
\* post-scan malicious count of 1 gives safe == false, wasStale == true and
\* "1 month 10d".
C15_StaleAgeIsMonthsBucket ==
  (entry = "summarize" /\ pc = "returned") =>
    /\ Get(result).wasStale =>
          LET days == PreAgeSec \div DaySec
              n    == days \div 30
          IN  /\ TruthyNum(PreAnalysisDate)
              /\ n >= 1
              /\ Get(result).stale_age_human =
                    ToString(n) \o (IF n = 1 THEN " month " ELSE " months ")
                      \o ToString(days % 30) \o "d"
              /\ Get(result).stale_age_human \notin { "unknown", "fresh" }
    /\ (PreAnalysisDate = Some(EpochNowSec - 40 * DaySec)
          /\ EngineCount(finalReport, "malicious") = 1) =>
          /\ ~Get(result).safe
          /\ Get(result).wasStale
          /\ Get(result).stale_age_human = "1 month 10d"

\* C15 witness: the service summarized a 40 days old pre-scan report and a
\* post-scan report with one malicious detection.
C15_Witness ==
  /\ entry = "summarize" /\ pc = "returned" /\ impl = "service"
  /\ PreAnalysisDate = Some(EpochNowSec - 40 * DaySec)
  /\ EngineCount(finalReport, "malicious") = 1
  /\ Get(result).wasStale
  /\ Get(result).stale_age_human = "1 month 10d"
  /\ ~Get(result).safe

\* The pre-scan last_submission_date of a direct summarize call (None when the
\* report or the field is absent).
PreSubmissionDate ==
  IF IsSome(AttributesOf(initialReport))
    THEN Get(AttributesOf(initialReport)).last_submission_date ELSE None

\* Post-scan reports that differ in their last_submission_date only.
PostSubmissionDateVariants ==
  { Report(None) } \cup
  { Report(Some(Attributes(None, lsd, None, None, None))) :
      lsd \in { None, Some(0), Some(EpochNowSec), Some(EpochNowSec - 40 * DaySec) } }

\* C16 as stated: whenever the pre-scan report has a last_submission_date,
\* last_submitted_ago is the humanized duration from it to now.
C16_AgoForEveryPresentDate ==
  (entry = "summarize" /\ pc = "returned" /\ IsSome(PreSubmissionDate)) =>
    Get(result).last_submitted_ago =
      humanizeDuration(Some(Ms(DateNow(clock).s - Get(PreSubmissionDate), DateNow(clock).r)))

\* C16 amended: whenever the pre-scan report has a last_submission_date other
\* than 0, last_submitted_ago is the humanized duration from it to now (an hour
\* ago gives "1h 0m", 61 days ago "2 months 1d"); when the report or the date is
\* absent, or the date is 0, it is "unknown"; and the post-scan
\* last_submission_date does not change it.
C16_SubmittedAgoFromPreScanOnly ==
  (entry = "summarize" /\ pc = "returned") =>
    /\ TruthyNum(PreSubmissionDate) =>
          /\ Get(result).last_submitted_ago =
                humanizeDuration(Some(Ms(DateNow(clock).s - Get(PreSubmissionDate),
                                         DateNow(clock).r)))
          /\ Get(PreSubmissionDate) = EpochNowSec - 3600 =>
                Get(result).last_submitted_ago = "1h 0m"
          /\ Get(PreSubmissionDate) = EpochNowSec - 61 * DaySec =>
                Get(result).last_submitted_ago = "2 months 1d"
    /\ ~TruthyNum(PreSubmissionDate) => Get(result).last_submitted_ago = "unknown"
    /\ \A final \in PostSubmissionDateVariants :
          LET other == IF impl = "service"
                         THEN summarize(urlStr, initialReport, final, DateNow(clock))
                         ELSE summarizeStandalone(urlStr, initialReport, final, DateNow(clock))
          IN  other.last_submitted_ago = Get(result).last_submitted_ago

\* C16 witness: submitted an hour before the scan, analysed 40 days before,
\* while the post-scan report says it was submitted just now.
C16_Witness ==
  /\ entry = "summarize" /\ pc = "returned"
  /\ PreSubmissionDate = Some(EpochNowSec - 3600)
  /\ PreAnalysisDate = Some(EpochNowSec - 40 * DaySec)
  /\ Get(result).last_submitted_ago = "1h 0m"
  /\ IsSome(AttributesOf(finalReport))
  /\ Get(AttributesOf(finalReport)).last_submission_date = Some(EpochNowSec)

\* The whole seconds of the argument of a direct humanizeDuration call.
WholeSeconds == Get(msArg).s

\* C17: humanizeDuration(ms) is "unknown" for null and for a negative
\* duration; otherwise it names the largest unit the duration reaches, every
\* number being a floor: from 30 days "<months> month(s) <days mod 30>d", from
\* 1 day "<days>d <hours mod 24>h", from 1 hour "<hours>h <mins mod 60>m", from
\* 1 minute "<mins>m", below that "<sec>s". 59999 ms gives "59s", 60000 ms
\* "1m" and 3600000 ms "1h 0m".
C17_HumanizeBuckets ==
  (entry = "humanizeDuration" /\ pc = "returned") =>
    /\ IF ~IsSome(msArg) THEN Get(result) = "unknown"
       ELSE IF WholeSeconds < 0 THEN Get(result) = "unknown"
       ELSE IF WholeSeconds >= 30 * DaySec
         THEN Get(result) =
                ToString(WholeSeconds \div (30 * DaySec))
                  \o (IF WholeSeconds \div (30 * DaySec) = 1 THEN " month " ELSE " months ")
                  \o ToString((WholeSeconds \div DaySec) % 30) \o "d"
       ELSE IF WholeSeconds >= DaySec
         THEN Get(result) = ToString(WholeSeconds \div DaySec) \o "d "
                              \o ToString((WholeSeconds \div 3600) % 24) \o "h"
       ELSE IF WholeSeconds >= 3600
         THEN Get(result) = ToString(WholeSeconds \div 3600) \o "h "
                              \o ToString((WholeSeconds \div 60) % 60) \o "m"
       ELSE IF WholeSeconds >= 60
         THEN Get(result) = ToString(WholeSeconds \div 60) \o "m"
       ELSE Get(result) = ToString(WholeSeconds) \o "s"
    /\ msArg = Some(Ms(59, 999)) => Get(result) = "59s"
    /\ msArg = Some(Ms(60, 0)) => Get(result) = "1m"
    /\ msArg = Some(Ms(3600, 0)) => Get(result) = "1h 0m"

\* C17 witness: 59999 ms were humanized to "59s".
C17_Witness ==
  /\ entry = "humanizeDuration" /\ pc = "returned"
  /\ msArg = Some(Ms(59, 999))
  /\ result = Some("59s")

\* A field of the post-scan report's attributes (None when the report has no
\* attributes or not that field), and a member of its total_votes (0 when
\* missing).
PostField(field) ==
  IF IsSome(AttributesOf(finalReport)) THEN Get(AttributesOf(finalReport))[field] ELSE None

VoteCount(member) ==
  IF IsSome(PostField("total_votes")) /\ IsSome(Get(PostField("total_votes"))[member])
    THEN Get(Get(PostField("total_votes"))[member])
    ELSE 0

StatsCounters == { "harmless", "malicious", "suspicious", "timeout", "undetected" }

DateFields == { "last_analysis_date", "last_submission_date" }

\* C18 as stated, for the dates: every present post-scan date is reported as
\* the ISO form of the same instant.
C18_PresentDatesUnchanged ==
  (entry = "summarize" /\ pc = "returned") =>
    \A f \in DateFields :
      IsSome(PostField(f)) => Get(result)[f] = Some(IsoOfSeconds(Get(PostField(f))))

\* C18 amended: summarize returns a summary for every post-scan report,
\* however partial: each of the five stats counters is the report's counter,
\* or 0 when the counter, the stats or the attributes are missing; total_votes
\* likewise, {0, 0} when missing; times_submitted is the report's (0 included)
\* or null; each date is null when missing or 0, and otherwise the ISO form
\* of the same instant.
C18_SummarizeTotalOverPartialReports ==
  (entry = "summarize" /\ pc = "returned") =>
    /\ IsSome(result)
    /\ \A c \in StatsCounters :
         Get(result).last_analysis_stats[c] = EngineCount(finalReport, c)
    /\ Get(result).total_votes =
         [ harmless |-> VoteCount("harmless"), malicious |-> VoteCount("malicious") ]
    /\ ~IsSome(PostField("total_votes")) =>
         Get(result).total_votes = [ harmless |-> 0, malicious |-> 0 ]
    /\ Get(result).times_submitted = PostField("times_submitted")
    /\ \A f \in DateFields :
         /\ ~IsSome(PostField(f)) => Get(result)[f] = None
         /\ PostField(f) = Some(0) => Get(result)[f] = None
         /\ TruthyNum(PostField(f)) =>
              Get(result)[f] = Some(IsoOfSeconds(Get(PostField(f))))
         /\ PostField(f) = Some(EpochNowSec) =>
              Get(result)[f] = Some("2026-11-01T00:00:00.000Z")
         /\ PostField(f) = Some(EpochNowSec - 40 * DaySec) =>
              Get(result)[f] = Some("2026-09-22T00:00:00.000Z")
    /\ Get(result).url = urlStr

\* C18 witness: a report with stats that lack three counters, without votes
\* and without times_submitted, and one without attributes at all.
C18_Witness ==
  /\ entry = "summarize" /\ pc = "returned"
  /\ PostField("last_analysis_stats") = Some(Stats(Some(70), None, None, None, Some(2)))
  /\ PostField("total_votes") = None
  /\ PostField("times_submitted") = None
  /\ Get(result).last_analysis_stats =
       [ harmless |-> 70, malicious |-> 0, suspicious |-> 0, timeout |-> 0, undetected |-> 2 ]
  /\ Get(result).total_votes = [ harmless |-> 0, malicious |-> 0 ]
  /\ Get(result).last_analysis_date = Some("2026-09-22T00:00:00.000Z")
  /\ Get(result).safe

\* The entries of a cache, as a set.
EntriesOf(m) == { m[i] : i \in 1..Len(m) }

\* C19: a setCachedResult that brings the cache to 1001 entries leaves 901:
\* it removes exactly 100 entries, none of them newer than an entry it keeps,
\* and keeps the others as they are; a setCachedResult that brings the cache
\* to 1000 entries or fewer leaves exactly the entries stored before (the one
\* of its url replaced) and the new one.
C19_EvictsHundredOldest ==
  [][ (cacheOps' = cacheOps + 1 /\ lastOp'.op = "put") =>
        LET put     == Entry(lastOp'.url, Get(lastOp'.result), clock')
            with    == { e \in EntriesOf(cache) : e.url # lastOp'.url } \cup { put }
            kept    == EntriesOf(cache')
            evicted == with \ kept
        IN  IF Cardinality(with) = 1001
              THEN /\ Len(cache') = 901
                   /\ Cardinality(kept) = 901
                   /\ kept \subseteq with
                   /\ Cardinality(evicted) = 100
                   /\ \A e \in evicted : \A k \in kept : e.timestamp <= k.timestamp
              ELSE /\ Cardinality(with) <= 1000
                   /\ kept = with
                   /\ Len(cache') = Cardinality(with)
    ]_vars

\* C19 witness: a put of a new url into a cache of 1000 entries left 901, the
\* new one among them.
C19_Witness ==
  /\ entry = "cache"
  /\ lastOp.op = "put" /\ lastOp.before = 1000
  /\ Len(cache) = 901
  /\ IsSome(MapGet(cache, lastOp.url))

\* C20: between cache operations the cache holds at most 1000 entries and no
\* two entries with the same url.
C20_CacheBounded ==
  entry = "cache" =>
    /\ Len(cache) <= 1000
    /\ Cardinality({ cache[i].url : i \in 1..Len(cache) }) = Len(cache)

\* C20 witness: two operations have run on a full cache, the last one a put of
\* a url the cache held already, and the cache is still full.
C20_Witness ==
  /\ entry = "cache" /\ cacheOps = 2
  /\ lastOp.op = "put" /\ lastOp.before = 1000
  /\ Len(cache) = 1000
  /\ MapGet(cache, lastOp.url) = Some(Entry(lastOp.url, Get(lastOp.result), clock))

\* What a getCachedResult step must do when entries of an age up to `limit`
\* (that age included when `inclusive`) are served: an absent url changes
\* nothing and returns null; an entry young enough is returned and nothing
\* changes; an older one gives null and is removed, every other entry staying
\* as and where it was.
GetServesUpTo(limit, inclusive) ==
  (cacheOps' = cacheOps + 1 /\ lastOp'.op = "get") =>
    LET url    == lastOp'.url
        cached == MapGet(cache, url)
        age    == clock' - Get(cached).timestamp
    IN  IF ~IsSome(cached)
          THEN lastOp'.result = None /\ cache' = cache
        ELSE IF age < limit \/ (inclusive /\ age = limit)
          THEN lastOp'.result = Some(Get(cached).result) /\ cache' = cache
        ELSE /\ lastOp'.result = None
             /\ ~IsSome(MapGet(cache', url))
             /\ cache' = SelectSeq(cache, LAMBDA e : e.url # url)
             /\ Len(cache') = Len(cache) - 1

\* C21 as stated: getCachedResult serves an entry as long as its age is not
\* greater than 24 hours.
C21_ServedUpToTtlInclusive == [][ GetServesUpTo(24 * 60 * 60 * 1000, TRUE) ]_vars

\* C21 amended: getCachedResult returns the stored result as long as the
\* entry's age is less than 24 hours; for an entry of 24 hours or more it
\* returns null and removes that entry; it never removes or changes the entry
\* of another url, and for an absent url it changes nothing.
C21_ServedBelowTtl == [][ GetServesUpTo(24 * 60 * 60 * 1000, FALSE) ]_vars

\* C21 witness: a result stored into the empty cache was looked up exactly 24
\* hours later: null was returned and the entry is gone.
C21_Witness ==
  /\ entry = "cache" /\ cacheOps = 2
  /\ lastOp.op = "get" /\ lastOp.url \notin { PrefilledUrl(1) }
  /\ lastOp.before = 1 /\ lastOp.result = None
  /\ clock = CacheClock + CACHE_DURATION
  /\ cache = << >>

\* C22: a scanUrl call of the BackgroundService for a url whose cache entry is
\* less than 24 hours old returns at once, without an await: its answer says
\* success with the stored result as data, it has issued no backend request
\* and called no setCachedResult, the cache is as it was, and a call that has
\* returned does nothing more.
C22_CacheHitBypassesBackend ==
  [][ \A r \in Requests :
        /\ (scans[r].pc = "idle" /\ scans'[r].pc # "idle") =>
             LET cached == MapGet(cache, scans'[r].url) IN
             (IsSome(cached) /\ clock' - Get(cached).timestamp < 24 * 60 * 60 * 1000) =>
               /\ scans'[r].pc = "returned"
               /\ scans'[r].hit
               /\ IsSome(scans'[r].response)
               /\ Get(scans'[r].response).success = TRUE
               /\ Get(scans'[r].response).data = Some(Get(cached).result)
               /\ scans'[r].request = None
               /\ ~scans'[r].wrote
               /\ cache' = cache
        /\ scans[r].pc = "returned" => scans'[r] = scans[r]
    ]_vars

\* C22 witness: the second call asked for the url whose result the first call
\* had fetched and cached, and was answered from the cache.
C22_Witness ==
  /\ entry = "background"
  /\ scans[1].pc = "returned" /\ scans[1].wrote /\ IsSome(scans[1].request)
  /\ scans[2].pc = "returned" /\ scans[2].hit /\ scans[2].url = scans[1].url
  /\ scans[2].request = None
  /\ Get(scans[2].response).success
  /\ Get(scans[2].response).data = Some(BackendResult)
  /\ IsSome(MapGet(cache, scans[2].url))

\* C23: scanUrl calls of the BackgroundService do not look at one another: a
\* call that finds no entry for its url goes on to getConfig whatever other
\* calls are in flight, then issues its own backend request, and when the
\* backend answers success with data it stores that data under its url with
\* the time of the answer. So of two overlapping calls for the same uncached
\* url both miss, both ask the backend and both write the cache (C23_Witness).
C23_NoDeduplication ==
  [][ \A r \in Requests :
        /\ (scans[r].pc = "idle" /\ scans'[r].pc # "idle"
              /\ ~IsSome(MapGet(cache, scans'[r].url))) =>
             /\ scans'[r].pc = "await_config"
             /\ ~scans'[r].hit
        /\ (scans[r].pc = "await_config" /\ scans'[r].pc # "await_config") =>
             /\ scans'[r].pc = "await_fetch"
             /\ IsSome(scans'[r].request)
             /\ IsBackendScanOf(Get(scans'[r].request), scans[r].url)
        /\ (scans[r].pc = "await_fetch" /\ scans'[r].pc # "await_fetch") =>
             LET answer == Get(scans'[r].response) IN
             /\ scans'[r].pc = "returned"
             /\ (answer.success /\ IsSome(answer.data)) =>
                  /\ scans'[r].wrote
                  /\ MapGet(cache', scans[r].url)
                       = Some(Entry(scans[r].url, Get(answer.data), clock'))
    ]_vars

\* C23 witness: two calls for the same url, which the cache did not hold, have
\* both fetched from the backend and both stored the result; no time passed
\* from the first call to the second answer, so the calls overlapped.
C23_Witness ==
  /\ entry = "background" /\ clock = CacheClock
  /\ scans[1].url = scans[2].url
  /\ \A r \in { 1, 2 } :
       /\ scans[r].pc = "returned" /\ ~scans[r].hit
       /\ IsSome(scans[r].request)
       /\ scans[r].wrote
       /\ Get(scans[r].response).success
  /\ MapGet(cache, scans[1].url) = Some(Entry(scans[1].url, BackendResult, clock))

\* The step is one of call r of scanUrl, and it changes the cache.
CacheStepOf(r) == scans'[r] # scans[r] /\ cache' # cache

\* The entries of a cache that are not the one of `url`, in their order.
Others(m, url) == SelectSeq(m, LAMBDA e : e.url # url)

\* C24 as stated: a step of a scanUrl call that changes the cache leaves the
\* entries of the urls other than its own as they were: none removed, none
\* changed.
C24_OtherEntriesNeverTouched ==
  [][ \A r \in Requests :
        CacheStepOf(r) => Others(cache', scans'[r].url) = Others(cache, scans'[r].url) ]_vars

\* C24 amended: a step of a scanUrl call that changes the cache adds or
\* changes no entry but the one of its own url, and removes entries of other
\* urls only when it stores its result as the 1001st entry: then the oldest
\* 100 entries go, whatever their urls, and the others stay as they were.
\* Looking up its url, and removing its expired entry, touches no other entry.
C24_OtherEntriesTouchedOnlyByEviction ==
  [][ \A r \in Requests : CacheStepOf(r) =>
        LET url == scans'[r].url IN
        IF scans'[r].wrote /\ ~scans[r].wrote
             /\ Len(cache) = 1000 /\ ~IsSome(MapGet(cache, url))
          THEN \A keptUrls \in { { cache'[i].url : i \in 1..Len(cache') } } :
               \A lost \in { SelectSeq(cache, LAMBDA e : e.url \notin keptUrls) } :
               \A keptAges \in { { cache'[i].timestamp : i \in 1..Len(cache') } } :
               \A oldestKept \in { t \in keptAges : \A other \in keptAges : t <= other } :
                 /\ Others(cache', url) = SelectSeq(cache, LAMBDA e : e.url \in keptUrls)
                 /\ Len(cache') = 901
                 /\ Len(lost) = 100
                 /\ \A i \in 1..Len(lost) : lost[i].timestamp <= oldestKept
          ELSE \* (the first two cases are decided entry by entry: an entry
               \* appended for url, an entry of url replaced where it was)
               \/ /\ Len(cache') = Len(cache) + 1
                  /\ cache'[Len(cache')].url = url
                  /\ SubSeq(cache', 1, Len(cache)) = cache
               \/ /\ Len(cache') = Len(cache)
                  /\ \A i \in 1..Len(cache) :
                       cache'[i] = cache[i] \/ (cache[i].url = url /\ cache'[i].url = url)
               \/ Others(cache', url) = Others(cache, url)
    ]_vars

\* C24 witness: a call for a url the full cache did not hold has stored its
\* result, and the entry of another url, the oldest, is gone.
C24_Witness ==
  /\ entry = "background"
  /\ \E r \in Requests :
       /\ scans[r].pc = "returned" /\ scans[r].wrote
       /\ scans[r].url # PrefilledUrl(1)
       /\ IsSome(MapGet(cache, scans[r].url))
  /\ Len(cache) = 901
  /\ ~IsSome(MapGet(cache, PrefilledUrl(1)))
  /\ IsSome(MapGet(cache, PrefilledUrl(101)))

\* The upstream requests issued so far.
UpstreamRequests == ReportGets + Submits + StatusGets

\* C25 as stated: no upstream request is ever issued while the API key is
\* not set.
C25_NoRequestWithoutKey == apiKey = "" => UpstreamRequests = 0

\* The summaries the two implementations build from the inputs and the clock
\* of a direct summarize call.
ServiceSummary == summarize(urlStr, initialReport, finalReport, DateNow(clock))
StandaloneSummary == summarizeStandalone(urlStr, initialReport, finalReport, DateNow(clock))

\* C26: for the same url, reports and clock the service's summarize and the
\* standalone script's summarize return summaries that agree in every field
\* but safe, and safe differs exactly when the post-scan report has
\* malicious + suspicious == 0 and total_votes.malicious > 0: then the service
\* says safe and the standalone script unsafe.
C26_SummarizeImplementationsAgree ==
  (entry = "summarize" /\ pc = "returned") =>
    \A service \in { ServiceSummary } : \A standalone \in { StandaloneSummary } :
      /\ result = Some(IF impl = "service" THEN service ELSE standalone)
      /\ [ service EXCEPT !.safe = TRUE ] = [ standalone EXCEPT !.safe = TRUE ]
      /\ (service.safe # standalone.safe) <=>
           (EngineCount(finalReport, "malicious") + EngineCount(finalReport, "suspicious") = 0
              /\ VoteCount("malicious") > 0)
      /\ (service.safe # standalone.safe) => (service.safe /\ ~standalone.safe)

\* C26 witness: the standalone script called a url unsafe for its three
\* malicious votes alone, which the service would call safe.
C26_Witness ==
  /\ entry = "summarize" /\ pc = "returned" /\ impl = "standalone"
  /\ ~Get(result).safe
  /\ EngineCount(finalReport, "malicious") + EngineCount(finalReport, "suspicious") = 0
  /\ VoteCount("malicious") = 3
  /\ ServiceSummary.safe
  /\ [ ServiceSummary EXCEPT !.safe = FALSE ] = Get(result)

\* The HTTP status of the upstream answer on which the service's scanUrl
\* failed, 0 when it failed on none (or on no answer at all).
UpstreamFailureStatus ==
  IF IsSome(lastAnswer) /\ IsSome(raised)
       /\ raised \notin { Some(NoAnalysisIdError), Some(FinalReportMissingError) }
       /\ ~IsSome(lastStatus)
    THEN Get(lastAnswer).status
    ELSE 0

\* C27 as stated: the controller answers a failed scan with 408 exactly when
\* the failure was the poller's timeout, with 403 or 429 exactly when it was
\* an upstream answer of that status, and with 500 for every other failure.
C27_StatusTellsTheFailure ==
  (entry = "controller" /\ IsSome(httpResponse) /\ pc = "failed") =>
    LET status == Get(httpResponse).status IN
    /\ status \in { 403, 408, 429, 500 }
    /\ status = 408 <=> raised = Some(TimeoutError)
    /\ status = 403 <=> UpstreamFailureStatus = 403
    /\ status = 429 <=> UpstreamFailureStatus = 429

\* C28: the poller is a loop of fixed interval. In its trace status fetches
\* and sleeps alternate, beginning with a fetch: a fetch is never followed by
\* a fetch, a sleep never by a sleep, and every sleep is one of intervalMs. A
\* sleep lasts intervalMs, and when it ends the elapsed time is compared with
\* timeoutMs: below it the next fetch starts, otherwise the timeout error is
\* thrown. A fetch starts only from the head of the loop, and only while the
\* elapsed time is below timeoutMs.
C28_FixedIntervalLoop ==
  /\ [](entry = "waitForAnalysis" =>
          /\ \A i \in 1..Len(trace) :
               /\ (i % 2 = 1) => IsStatusGet(trace[i])
               /\ (i % 2 = 0) => trace[i] = SleepEvent(intervalMs)
          /\ StatusGets - Sleeps \in { 0, 1 }
          /\ pc = "await_status" => (clock - start < timeoutMs /\ IsStatusGet(LastEvent))
          /\ pc = "sleeping" => trace[Len(trace)] = SleepEvent(intervalMs))
  /\ [][ entry = "waitForAnalysis" =>
           /\ pc = "sleeping" =>
                /\ clock' = clock + intervalMs
                /\ IF clock' - start < timeoutMs
                     THEN pc' = "await_status" /\ trace' = Append(trace, StatusRequest(Get(analysisId)))
                     ELSE pc' = "failed" /\ raised' = Some(TimeoutError) /\ trace' = trace
           /\ pc' = "await_status" =>
                /\ pc \in { "new", "sleeping" }
                /\ clock' - start' < timeoutMs
           /\ (pc = "await_status" /\ pc' \notin { "returned", "failed" }) =>
                /\ pc' = "sleeping"
                /\ trace' = Append(trace, SleepEvent(intervalMs))
       ]_vars

\* C28 witness: with an interval of 1000 ms and a timeout of 3000 ms the poller
\* fetched at 0, 1000 and 2000 ms, slept three times and timed out at 3000 ms.
C28_Witness ==
  /\ entry = "waitForAnalysis" /\ pc = "failed" /\ raised = Some(TimeoutError)
  /\ intervalMs = 1000 /\ timeoutMs = 3000
  /\ StatusGets = 3 /\ Sleeps = 3
  /\ clock - start = 3000

\* The call is over: a value was returned or an error thrown.
Terminated == pc \in { "returned", "failed", "construct_failed" }

\* What is left of the poller's time budget.
Remaining == timeoutMs - (clock - start)

\* C29: the poller always terminates, and so does the scan around it. When
\* every fetch is answered and every sleep ends, the call is eventually over.
\* Each sleep shrinks what is left of the budget (intervalMs > 0), the k-th
\* status fetch starts no earlier than (k - 1) * intervalMs and before
\* timeoutMs, so fetches are bounded in number. A direct call of
\* waitForAnalysis ends with the completed job, the timeout error, the
\* unexpected-status error, or the error of a status fetch that failed; a scan
\* ends with a summary or an error.
C29_PollerTerminates ==
  /\ <>Terminated
  /\ [][ pc = "sleeping" => (intervalMs > 0 /\ Remaining' < Remaining) ]_vars
  /\ [](StatusGets > 0 => (StatusGets - 1) * intervalMs < timeoutMs)
  /\ []((entry = "waitForAnalysis" /\ pc = "returned") =>
          (IsSome(job) /\ IsCompleted(StatusOf(job))))
  /\ []((entry = "waitForAnalysis" /\ pc = "failed") =>
          \/ raised = Some(TimeoutError)
          \/ \E st \in JobStatuses : raised = Some(UnexpectedStatusError(st))
          \/ /\ IsSome(lastAnswer)
             /\ Get(lastAnswer).of = "await_status"
             /\ \E res \in ErrorResponses :
                  /\ Get(lastAnswer).status = res.status
                  /\ fetchJson(res) = Threw(Get(raised)))
  /\ []((entry = "scanUrl" /\ Terminated) =>
          IF pc = "returned" THEN IsSome(result) /\ raised = None
                             ELSE IsSome(raised) /\ result = None)

\* C29 witness: a direct call with an interval of 7000 ms and a timeout of
\* 20000 ms polled three times, each answer taking the longest, and ended in
\* the timeout error; the budget was overrun.
C29_Witness ==
  /\ entry = "waitForAnalysis" /\ pc = "failed" /\ raised = Some(TimeoutError)
  /\ intervalMs = 7000 /\ timeoutMs = 20000
  /\ StatusGets >= 2 /\ Sleeps = StatusGets
  /\ Remaining < 0

\* The URL-safe alphabet: the base64 alphabet with '-' for '+' and '_' for '/'.
B64UrlAlphabet ==
  [ i \in 1..64 |-> IF i = 63 THEN "-" ELSE IF i = 64 THEN "_" ELSE B64Alphabet[i] ]

CharsOf(str) == [ i \in 1..Len(str) |-> SubSeq(str, i, i) ]

\* The bytes an unpadded identifier stands for: its characters are six bits
\* each, read from the left, eight bits to the byte.
DecodeB64Url(id) ==
  LET n    == Len(id)
      sext == [ i \in 1..n |-> (CHOOSE v \in 1..64 : B64UrlAlphabet[v] = id[i]) - 1 ]
      Pow2(e) == IF e = 0 THEN 1 ELSE IF e = 2 THEN 4 ELSE 16
  IN [ k \in 1..((6 * n) \div 8) |->
         LET q == (8 * (k - 1)) \div 6
             r == (8 * (k - 1)) % 6
         IN ((sext[q + 1] * 64 + sext[q + 2]) \div Pow2(4 - r)) % 256 ]

\* identifier is what the claim says the identifier of input is.
IsIdentifierOf(identifier, input) ==
  \A id \in { CharsOf(identifier) } : \A bytes \in { Utf8(input) } :
  \A std \in { Base64(bytes) } :
    \* only characters of the URL-safe alphabet: no '+', no '/', no '='
    /\ \A i \in 1..Len(id) :
         /\ id[i] \notin { "+", "/", "=" }
         /\ \E v \in 1..64 : B64UrlAlphabet[v] = id[i]
    \* the standard base64, '+' and '/' replaced, the padding at the end removed
    /\ Len(std) = 4 * ((Len(bytes) + 2) \div 3)
    /\ Len(id) = (8 * Len(bytes) + 5) \div 6
    /\ \A i \in 1..Len(std) :
         IF i > Len(id) THEN std[i] = "="
         ELSE IF std[i] = "+" THEN id[i] = "-"
         ELSE IF std[i] = "/" THEN id[i] = "_"
         ELSE id[i] = std[i] /\ std[i] # "="
    \* and that base64 is the one of the UTF-8 bytes
    /\ DecodeB64Url(id) = bytes

\* C30: b64url is total and yields the unpadded URL-safe base64 of the input's
\* UTF-8 bytes: a direct call returns (never throws) an identifier without
\* '+', '/' and '=', equal to the standard base64 with '+' -> '-', '/' -> '_' and
\* the trailing '=' removed; and every report request of a scan, the pre-scan
\* one and the post-scan one, addresses urls/<that identifier of urlStr>.
C30_IdentifierIsUrlSafeBase64 ==
  /\ (entry = "b64url" /\ pc # "new") =>
       /\ pc = "returned" /\ raised = None /\ IsSome(result)
       /\ IsIdentifierOf(Get(result), urlStr)
  /\ entry = "scanUrl" =>
       \A i \in 1..Len(trace) :
         IsReportGet(trace[i]) =>
           /\ SubSeq(trace[i].target, 1, 5) = "urls/"
           /\ IsIdentifierOf(SubSeq(trace[i].target, 6, Len(trace[i].target)), urlStr)
           /\ \A j \in 1..Len(trace) :
                IsReportGet(trace[j]) => trace[j].target = trace[i].target

\* C30 witness: b64url("?" U+0FBF) returned "P-C-vw": the plain base64
\* "P+C+vw==" holds two '+' and two '='.
C30_Witness ==
  /\ entry = "b64url" /\ pc = "returned"
  /\ urlStr = << 63, 4031 >>
  /\ Join(Base64(Utf8(urlStr))) = "P+C+vw=="
  /\ result = Some("P-C-vw")

\* C32: a put never evicts what it has just stored. After setCachedResult(url,
\* result) the Map holds url with that result and the time of the put, whatever
\* the Map held before: below the limit, full, full with tied timestamps, full
\* with every timestamp equal to the time of the put.
C32_PutKeepsItsEntry ==
  lastOp.op = "put" =>
    \A stored \in { MapGet(cache, lastOp.url) } :
      /\ IsSome(stored)
      /\ Some(Get(stored).result) = lastOp.result
      /\ Get(stored).timestamp = clock

\* C32 witness: a put of a new URL into a full Map all of whose entries carry
\* the timestamp of the put evicted 100 entries and kept the new one.
C32_Witness ==
  /\ lastOp.op = "put" /\ lastOp.before = MaxCacheEntries
  /\ Len(cache) = MaxCacheEntries + 1 - EvictCount
  /\ \A i \in 1..Len(cache) : cache[i].timestamp = clock
  /\ cache[Len(cache)].url = lastOp.url

\* The backend's answer to call r is one that must not be cached: no answer at
\* all, a status outside 2xx, or a body without success or without data.
AnswerFailed(sc) ==
  \/ Get(sc.answer).status = 0
  \/ ~(Get(sc.answer).status >= 200 /\ Get(sc.answer).status <= 299)
  \/ ~Get(Get(sc.answer).json).success
  \/ ~IsSome(Get(Get(sc.answer).json).data)

\* C33: only successful scans populate the cache. The first step of a scanUrl
\* call changes the cache at most by deleting the expired entry of its own
\* url, reading the config changes nothing, and the step that receives a failed
\* answer (no answer, non-2xx, success == false, no data) leaves the cache as it
\* is and returns success == false or no data. So after a failed scan the cache
\* holds nothing fresh for the url unless another call stored it, and a later
\* call for the url that no other call served misses and asks the backend.
C33_FailedScansLeaveCache ==
  /\ [][ \A r \in Requests : scans'[r] # scans[r] =>
           /\ scans[r].pc = "idle" =>
                \/ cache' = cache
                \/ /\ cache' = MapDelete(cache, scans'[r].url)
                   /\ IsSome(MapGet(cache, scans'[r].url))
                   /\ clock' - Get(MapGet(cache, scans'[r].url)).timestamp >= CACHE_DURATION
                   /\ ~scans'[r].hit
           /\ scans[r].pc = "await_config" => cache' = cache
           /\ (scans[r].pc = "await_fetch" /\ AnswerFailed(scans'[r])) =>
                /\ cache' = cache
                /\ ~scans'[r].wrote
                /\ ~(Get(scans'[r].response).success /\ IsSome(Get(scans'[r].response).data))
       ]_vars
  /\ [](\A r, later \in Requests :
          ( /\ r < later
            /\ scans[r].pc = "returned" /\ IsSome(scans[r].answer) /\ AnswerFailed(scans[r])
            /\ scans[later].pc # "idle" /\ scans[later].url = scans[r].url
            /\ \A o \in Requests : scans[o].url = scans[r].url => ~scans[o].wrote )
          => /\ ~scans[later].hit
             /\ scans[later].pc \in { "await_fetch", "returned" } => IsSome(scans[later].request))

\* C33 witness: the first call found its url's entry expired and removed it,
\* the backend answered 502 and the cache stayed empty; the second call for
\* the same url missed and has sent its own backend request.
C33_Witness ==
  /\ entry = "background"
  /\ scans[1].pc = "returned" /\ scans[1].url = PrefilledUrl(1)
  /\ IsSome(scans[1].answer) /\ Get(scans[1].answer).status = 502
  /\ ~Get(scans[1].response).success
  /\ cache = << >>
  /\ scans[2].pc = "await_fetch" /\ scans[2].url = PrefilledUrl(1)
  /\ IsSome(scans[2].request)

\* C34: every scanUrl message with a url gets exactly one response. A call
\* that is under way has sent none and has a step to take; a call that is over
\* has sent exactly one, the value scanUrl returned, and scanUrl always
\* returns a value: the cached result, the backend's 2xx body as it came, or,
\* for everything that went wrong (no answer, a status outside 2xx, an error
\* thrown while notifying), success == false with a non-empty error string and
\* the message "Failed to scan URL: <error>".
C34_ExactlyOneResponse ==
  entry = "background" =>
    \A r \in Requests : \A sc \in { scans[r] } :
      /\ sc.sent = (IF sc.pc = "returned" THEN 1 ELSE 0)
      /\ IsSome(sc.response) <=> sc.pc = "returned"
      /\ sc.pc = "await_config" => ENABLED BackgroundConfigLoaded(r)
      /\ sc.pc = "await_fetch" => ENABLED BackgroundFetchResponse(r)
      /\ sc.pc = "returned" =>
           \A resp \in { Get(sc.response) } :
             IF sc.hit
               THEN resp.success /\ IsSome(resp.data) /\ sc.answer = None
             ELSE IF /\ Get(sc.answer).status >= 200 /\ Get(sc.answer).status <= 299
                     /\ ~(sc.notified /\ showScanNotificationThrows(Get(Get(Get(sc.answer).json).data)))
               THEN resp = Get(Get(sc.answer).json)
             ELSE /\ resp.success = FALSE
                  /\ resp.data = None
                  /\ IsSome(resp.error) /\ Get(resp.error) # ""
                  /\ resp.message = Some("Failed to scan URL: " \o Get(resp.error))

\* C34 witness: of two calls one was answered from the cache and one had no
\* answer from the backend; each has sent one response, the second one the
\* failure value.
C34_Witness ==
  /\ entry = "background"
  /\ \E r, q \in Requests :
       /\ scans[r].pc = "returned" /\ scans[r].hit /\ scans[r].sent = 1
       /\ scans[q].pc = "returned" /\ ~scans[q].hit /\ scans[q].sent = 1
       /\ Get(scans[q].answer).status = 0
       /\ Get(scans[q].response) = FailureAnswer("Failed to fetch")

\* C35: the timeout is looked at only before a status fetch starts. An answer
\* 'completed' makes waitForAnalysis return the job however late it arrives,
\* also when the elapsed time has reached timeoutMs by then; and with
\* timeoutMs <= 0 the call throws the timeout error without any status fetch.
C35_TimeoutOnlyBeforeFetch ==
  entry = "waitForAnalysis" =>
    /\ lastStatus = Some("completed") =>
         /\ pc = "returned"
         /\ IsSome(job) /\ IsCompleted(StatusOf(job))
         /\ raised = None
    /\ (timeoutMs <= 0 /\ pc # "new") =>
         /\ pc = "failed"
         /\ raised = Some(TimeoutError)
         /\ StatusGets = 0 /\ trace = << >>

\* C35 witness: the status fetch started in time, its answer 'completed' came
\* after the deadline, and the job was returned.
C35_Witness ==
  /\ entry = "waitForAnalysis" /\ pc = "returned"
  /\ lastStatus = Some("completed")
  /\ timeoutMs > 0 /\ clock - start >= timeoutMs
  /\ StatusGets = 1

\* The summary of the same url, post-scan report and clock when there is no
\* pre-scan report at all.
SummaryWithoutPreScan ==
  IF impl = "service" THEN summarize(urlStr, None, finalReport, DateNow(clock))
                      ELSE summarizeStandalone(urlStr, None, finalReport, DateNow(clock))

\* C36: the pre-scan report reaches only wasStale, stale_age_human and
\* last_submitted_ago. Whatever the pre-scan report, the summary agrees with the
\* one built without a pre-scan report on url, safe, last_analysis_stats,
\* total_votes, last_analysis_date, last_submission_date and times_submitted;
\* so two summaries that differ in the pre-scan report only agree on them.
C36_PreScanReachesThreeFields ==
  (entry = "summarize" /\ pc = "returned") =>
    \A s \in { Get(result) } : \A base \in { SummaryWithoutPreScan } :
      /\ s.url = base.url
      /\ s.safe = base.safe
      /\ s.last_analysis_stats = base.last_analysis_stats
      /\ s.total_votes = base.total_votes
      /\ s.last_analysis_date = base.last_analysis_date
      /\ s.last_submission_date = base.last_submission_date
      /\ s.times_submitted = base.times_submitted

\* C36 witness: the pre-scan report made the summary stale with a known
\* submission age, which the summary without a pre-scan report is not, and the
\* post-scan report has no attributes.
C36_Witness ==
  /\ entry = "summarize" /\ pc = "returned"
  /\ IsSome(AttributesOf(initialReport))
  /\ ~IsSome(AttributesOf(finalReport))
  /\ Get(result).wasStale /\ ~SummaryWithoutPreScan.wasStale
  /\ Get(result).stale_age_human # SummaryWithoutPreScan.stale_age_human
  /\ Get(result).last_submitted_ago # SummaryWithoutPreScan.last_submitted_ago

\* C37: stale_age_human is "fresh" exactly when wasStale is false. A pre-scan
\* last_analysis_date that is present and not more than 30 days old (29 days,
\* exactly 30 days, a day in the future) gives "fresh"; the age is rendered
\* only when it exceeds 30 days, and then it is the humanized staleAgeMs.
C37_FreshIffNotStale ==
  (entry = "summarize" /\ pc = "returned") =>
    \A s \in { Get(result) } :
      /\ (s.stale_age_human = "fresh") <=> ~s.wasStale
      /\ (IsSome(PreAnalysisDate) /\ ~OlderThanThirtyDays) => s.stale_age_human = "fresh"
      /\ s.stale_age_human # "fresh" =>
           /\ IsSome(PreAnalysisDate) /\ OlderThanThirtyDays
           /\ s.stale_age_human =
                humanizeDuration(Some(MsSub(DateNow(clock), SecToMs(Get(PreAnalysisDate)))))

\* C37 witness: the pre-scan analysis is exactly 30 days old, to the
\* millisecond, and the summary says "fresh".
C37_Witness ==
  /\ entry = "summarize" /\ pc = "returned"
  /\ IsSome(PreAnalysisDate) /\ PreAgeSec = 30 * DaySec /\ DateNow(clock).r = 0
  /\ ~Get(result).wasStale
  /\ Get(result).stale_age_human = "fresh"

\* C31: the content script has at most one scan outstanding: while a 'scanUrl'
\* message it has sent is without its response, a further scanUrl call sends
\* no second message.
C31_AtMostOneOutstandingScan ==
  entry = "content" => Len(outstanding) <= 1

\* C38: every persistent scan button is displayed exactly when buttonsVisible
\* is true, whatever keys were pressed and whatever links the page added.
C38_ButtonsDisplayedIffVisible ==
  entry = "content" =>
    \A i \in DOMAIN buttons : (buttons[i] # "none") <=> buttonsVisible

\* C39: a timer of showScanOption removes the floating button only when that
\* button has been shown for 5 seconds: a floating button goes away earlier
\* only by a new selection or by the start of a scan.
C39_TimerRemovesOnlyItsOwnButton ==
  [][ ( /\ entry = "content"
        /\ IsSome(floating) /\ floating' = None
        /\ hideTimers' # hideTimers /\ hideTimers' \subseteq hideTimers )
      => clock' - Get(floating).at >= AutoHideMs ]_vars

\* C40: no configuration update is lost: when two updateConfig calls that
\* change different keys have both returned, and initializeConfig has ended,
\* the stored config holds the change of each.
C40_NoConfigUpdateLost ==
  ( /\ entry = "config"
    /\ Len(updates) = 2
    /\ updates[1].pc = "returned" /\ updates[2].pc = "returned"
    /\ DOMAIN updates[1].newConfig \cap DOMAIN updates[2].newConfig = {}
    /\ initConfig = "done" )
  => /\ IsSome(storage)
     /\ \A c \in 1..2 : \A key \in DOMAIN updates[c].newConfig :
          Get(storage)[key] = updates[c].newConfig[key]

====
